---- MODULE Spec2Model ----
(***************************************************************************)
(* The content-addressed index store of code-bridge (pkg/indexer): one     *)
(* Indexer instance over one JSONL store file.                             *)
(*                                                                         *)
(* The file system is the record `disk`: whether the parent directory      *)
(* exists, whether the store file exists, and the file's lines in order.   *)
(* The instance is `deduplication` (fixed by New) and `hashSet`.  The      *)
(* variables op, arg, ret, err hold the last call, its argument and what   *)
(* it returned; inited, faulted, fresh and rep are history variables the    *)
(* claims' preconditions speak about.  The argument is recorded, and rep   *)
(* kept, only in the runs that follow repeated calls (track).              *)
(*                                                                         *)
(* cmd is the state of one run of the `index` command (cmdIndex), and gs   *)
(* the goroutines that call the instance concurrently, with its RWMutex;   *)
(* both stay idle in the runs of single calls.  ties is how the sort of    *)
(* this build arranges elements that compare equal.                        *)
(***************************************************************************)
EXTENDS Integers, Sequences, FiniteSets, TLC

VARIABLES disk, deduplication, hashSet, op, arg, ret, err,
          inited, faulted, fresh, track, rep, cmd, gs, ties

vars == <<disk, deduplication, hashSet, op, arg, ret, err,
          inited, faulted, fresh, track, rep, cmd, gs, ties>>

(***************************************************************************)
(* Bounds of the model.                                                    *)
(***************************************************************************)
\* most lines the store file holds (no Index is followed that grows it further)
MaxStore == 2
\* longest batch passed to Index
MaxBatch == 2
\* most lines of the store file found at construction
MaxInit == 2

(***************************************************************************)
(* bufio.Scanner's default token limit (bufio.MaxScanTokenSize): a line    *)
(* that does not fit the buffer with its newline ends the scan with        *)
(* bufio.ErrTooLong.                                                       *)
(***************************************************************************)
MaxScanTokenSize == 65536

(***************************************************************************)
(* parser.CodeElement values.  Body stands for the source text; BodyLen is *)
(* its length in bytes.  Methods is a []string: nil, empty or non-empty.   *)
(* IndexedAt is the extraction time.                                       *)
(***************************************************************************)
BodyLen(body) == IF body = "func Big" THEN 70000 ELSE Len(body)

(***************************************************************************)
(* parser.HashCode: the first 16 hexadecimal digits of the SHA-256 of the  *)
(* body.  The digest is taken to be free of collisions: it is written as   *)
(* the body it was computed from.                                          *)
(***************************************************************************)
HashCode(body) == "sha256:" \o body

eAdd1 == [Type |-> "function", Name |-> "Add", File |-> "a.go", Line |-> 1,
          Hash |-> HashCode("func Add"), Methods |-> "nil", Body |-> "func Add", Language |-> "go", IndexedAt |-> 1]
\* the same source text found in another file at a later time
eAdd2 == [Type |-> "function", Name |-> "Add", File |-> "b.go", Line |-> 2,
          Hash |-> HashCode("func Add"), Methods |-> "nil", Body |-> "func Add", Language |-> "go", IndexedAt |-> 2]
\* extractType sets Methods to an empty, non-nil slice for a struct
eT    == [Type |-> "struct", Name |-> "T", File |-> "a.go", Line |-> 5,
          Hash |-> HashCode("type T"), Methods |-> "empty", Body |-> "type T", Language |-> "go", IndexedAt |-> 1]
\* an element whose body is longer than the scanner's token limit
eBig  == [Type |-> "function", Name |-> "Big", File |-> "b.go", Line |-> 1,
          Hash |-> HashCode("func Big"), Methods |-> "nil", Body |-> "func Big", Language |-> "go", IndexedAt |-> 2]

Elements == {eAdd1, eAdd2, eT, eBig}
Hashes == {e.Hash : e \in Elements}

SeqsUpTo(S, n) == UNION {[1..k -> S] : k \in 0..n}
Batches == SeqsUpTo(Elements, MaxBatch)

(***************************************************************************)
(* One line of the store file.  json.Encoder.Encode writes the element as  *)
(* one JSON object and a newline; a field tagged omitempty is left out     *)
(* when it is empty (Methods: nil or empty).  The length is at least the   *)
(* body between its quotes.                                                *)
(***************************************************************************)
Encode(element) ==
    [valid |-> TRUE,
     obj   |-> IF element.Methods = "some"
               THEN element
               ELSE [k \in DOMAIN element \ {"Methods"} |-> element[k]],
     len   |-> BodyLen(element.Body) + 2]

\* a line that is no JSON object
Garbage == [valid |-> FALSE, len |-> 7]

\* the first bytes of a record's line, with no newline: the rest is not written (yet)
Torn(element) == [valid |-> FALSE, len |-> 1, torn |-> TRUE]

IsTorn(line) == "torn" \in DOMAIN line

\* a line written after a torn one continues it: the two are one line, and no JSON object
Merged(torn, line) == [valid |-> FALSE, len |-> torn.len + line.len]

\* json.Unmarshal of a line into a zero CodeElement: an absent field stays nil
Unmarshal(line) ==
    IF "Methods" \in DOMAIN line.obj
    THEN line.obj
    ELSE [k \in DOMAIN line.obj \cup {"Methods"} |->
            IF k = "Methods" THEN "nil" ELSE line.obj[k]]

Decodes(line) == line.valid

StoreLines == {Encode(e) : e \in Elements} \cup {Garbage}

(***************************************************************************)
(* bufio.Scanner over the file: the lines it yields before it stops, and   *)
(* its Err().                                                              *)
(***************************************************************************)
TooLong(line) == line.len >= MaxScanTokenSize

RECURSIVE Scan(_)
Scan(lines) ==
    IF lines = <<>> THEN [tokens |-> <<>>, err |-> "nil"]
    ELSE IF TooLong(Head(lines)) THEN [tokens |-> <<>>, err |-> "ErrTooLong"]
    ELSE LET rest == Scan(Tail(lines))
         IN  [tokens |-> <<Head(lines)>> \o rest.tokens, err |-> rest.err]

RECURSIVE DecodeAll(_)
DecodeAll(tokens) ==
    IF tokens = <<>> THEN <<>>
    ELSE IF Decodes(Head(tokens))
         THEN <<Unmarshal(Head(tokens))>> \o DecodeAll(Tail(tokens))
         ELSE DecodeAll(Tail(tokens))

\* Indexer.ReadAll
ReadAll(d) ==
    IF ~d.exists THEN [elements |-> <<>>, err |-> "nil"]
    ELSE LET s == Scan(d.lines)
         IN  [elements |-> DecodeAll(s.tokens), err |-> s.err]

\* loadExistingHashes with `break` for `continue`: it stops at a malformed line
loadExistingHashesStopsAtMalformed(d, hs) ==
    IF ~d.exists THEN [hashSet |-> hs, err |-> "nil"]
    ELSE LET s == Scan(d.lines)
             stop == IF \E i \in 1..Len(s.tokens) : ~Decodes(s.tokens[i])
                     THEN (CHOOSE i \in 1..Len(s.tokens) :
                              /\ ~Decodes(s.tokens[i])
                              /\ \A j \in 1..(i - 1) : Decodes(s.tokens[j])) - 1
                     ELSE Len(s.tokens)
             found == DecodeAll(SubSeq(s.tokens, 1, stop))
         IN  [hashSet |-> hs \cup {found[i].Hash : i \in 1..Len(found)},
              err |-> s.err]

\* Indexer.loadExistingHashes
loadExistingHashes(d, hs) ==
    IF ~d.exists THEN [hashSet |-> hs, err |-> "nil"]
    ELSE LET s == Scan(d.lines)
             found == DecodeAll(s.tokens)
         IN  [hashSet |-> hs \cup {found[i].Hash : i \in 1..Len(found)},
              err |-> s.err]

\* Init with os.Mkdir for os.MkdirAll: it fails when the directory exists
InitMkdir(d, hs) ==
    IF d.dir THEN [disk |-> d, hashSet |-> hs, err |-> "EEXIST"]
    ELSE LET made == [d EXCEPT !.dir = TRUE]
         IN  IF deduplication
             THEN LET l == loadExistingHashes(made, hs)
                  IN  [disk |-> made, hashSet |-> l.hashSet, err |-> l.err]
             ELSE [disk |-> made, hashSet |-> hs, err |-> "nil"]

\* Indexer.Init: os.MkdirAll, then loadExistingHashes when deduplicating
Init(d, hs) ==
    LET made == [d EXCEPT !.dir = TRUE]
    IN  IF deduplication
        THEN LET l == loadExistingHashes(made, hs)
             IN  [disk |-> made, hashSet |-> l.hashSet, err |-> l.err]
        ELSE [disk |-> made, hashSet |-> hs, err |-> "nil"]

RECURSIVE EncodeAll(_)
EncodeAll(elements) ==
    IF elements = <<>> THEN <<>>
    ELSE <<Encode(Head(elements))>> \o EncodeAll(Tail(elements))

\* appendToIndex with O_TRUNC for O_APPEND: the file is rewritten
appendToIndexTruncates(d, elements) ==
    IF ~d.dir THEN [disk |-> d, err |-> "ENOENT"]
    ELSE [disk |-> [d EXCEPT !.exists = TRUE, !.lines = EncodeAll(elements)],
          err |-> "nil"]

(***************************************************************************)
(* Indexer.appendToIndex: O_CREATE|O_APPEND fails when the directory is    *)
(* missing.  The bytes go to the end of the file: when the file ends in a  *)
(* line without newline, the first record written continues that line.     *)
(***************************************************************************)
appendToIndex(d, elements) ==
    IF ~d.dir THEN [disk |-> d, err |-> "ENOENT"]
    ELSE LET n == Len(d.lines)
             new == EncodeAll(elements)
         IN  [disk |-> [d EXCEPT
                          !.exists = TRUE,
                          !.lines = IF n > 0 /\ IsTorn(d.lines[n]) /\ new # <<>>
                                    THEN SubSeq(d.lines, 1, n - 1)
                                         \o <<Merged(d.lines[n], Head(new))>>
                                         \o Tail(new)
                                    ELSE d.lines \o new],
              err |-> "nil"]

\* the loop without `idx.hashSet[element.Hash] = true`
RECURSIVE IndexLoopForgetsHash(_, _, _)
IndexLoopForgetsHash(elements, toWrite, hs) ==
    IF elements = <<>> THEN [toWrite |-> toWrite, hashSet |-> hs]
    ELSE LET element == Head(elements)
         IN  IF deduplication /\ element.Hash \in hs
             THEN IndexLoopForgetsHash(Tail(elements), toWrite, hs)
             ELSE IndexLoopForgetsHash(Tail(elements), Append(toWrite, element), hs)

\* the loop without the test that skips a known hash
RECURSIVE IndexLoopNeverSkips(_, _, _)
IndexLoopNeverSkips(elements, toWrite, hs) ==
    IF elements = <<>> THEN [toWrite |-> toWrite, hashSet |-> hs]
    ELSE LET element == Head(elements)
         IN  IndexLoopNeverSkips(Tail(elements), Append(toWrite, element),
                                 hs \cup {element.Hash})

\* the loop of Indexer.Index: the elements to write and the hash set after it
RECURSIVE IndexLoop(_, _, _)
IndexLoop(elements, toWrite, hs) ==
    IF elements = <<>> THEN [toWrite |-> toWrite, hashSet |-> hs]
    ELSE LET element == Head(elements)
         IN  IF deduplication /\ element.Hash \in hs
             THEN IndexLoop(Tail(elements), toWrite, hs)
             ELSE IndexLoop(Tail(elements), Append(toWrite, element),
                            hs \cup {element.Hash})

\* Index that returns len(elements) for len(toWrite)
IndexCountsCandidates(d, hs, elements) ==
    LET l == IndexLoop(elements, <<>>, hs)
    IN  IF Len(l.toWrite) > 0
        THEN LET a == appendToIndex(d, l.toWrite)
             IN  IF a.err # "nil"
                 THEN [disk |-> a.disk, hashSet |-> l.hashSet, n |-> 0, err |-> a.err]
                 ELSE [disk |-> a.disk, hashSet |-> l.hashSet,
                       n |-> Len(elements), err |-> "nil"]
        ELSE [disk |-> d, hashSet |-> l.hashSet, n |-> Len(elements), err |-> "nil"]

\* Index whose loop marks the hashes in a copy of the set
IndexMarksACopy(d, hs, elements) ==
    LET l == IndexLoop(elements, <<>>, hs)
    IN  IF Len(l.toWrite) > 0
        THEN LET a == appendToIndex(d, l.toWrite)
             IN  IF a.err # "nil"
                 THEN [disk |-> a.disk, hashSet |-> hs, n |-> 0, err |-> a.err]
                 ELSE [disk |-> a.disk, hashSet |-> hs,
                       n |-> Len(l.toWrite), err |-> "nil"]
        ELSE [disk |-> d, hashSet |-> hs, n |-> 0, err |-> "nil"]

\* Indexer.Index
Index(d, hs, elements) ==
    LET l == IndexLoop(elements, <<>>, hs)
    IN  IF Len(l.toWrite) > 0
        THEN LET a == appendToIndex(d, l.toWrite)
             IN  IF a.err # "nil"
                 THEN [disk |-> a.disk, hashSet |-> l.hashSet, n |-> 0, err |-> a.err]
                 ELSE [disk |-> a.disk, hashSet |-> l.hashSet,
                       n |-> Len(l.toWrite), err |-> "nil"]
        ELSE [disk |-> d, hashSet |-> l.hashSet, n |-> 0, err |-> "nil"]

\* Clear without `idx.hashSet = make(map[string]bool)`
ClearKeepsHashSet(d, hs) ==
    [disk |-> IF d.exists THEN [d EXCEPT !.exists = FALSE, !.lines = <<>>] ELSE d,
     hashSet |-> hs,
     err |-> "nil"]

\* Clear without os.Remove: the file stays
ClearKeepsFile(d, hs) ==
    [disk |-> d, hashSet |-> {}, err |-> "nil"]

\* Indexer.Clear: a new hash set; the file is removed when os.Stat finds it
Clear(d, hs) ==
    [disk |-> IF d.exists THEN [d EXCEPT !.exists = FALSE, !.lines = <<>>] ELSE d,
     hashSet |-> {},
     err |-> "nil"]

(***************************************************************************)
(* Indexer.Rebuild.  `unique` is the map from hash to element: a later     *)
(* record of the store replaces an earlier one with the same hash.  The    *)
(* map is ranged over in an order the runtime chooses: `order` lists its   *)
(* keys in that order.                                                     *)
(***************************************************************************)
HashesOf(elements) == {elements[i].Hash : i \in 1..Len(elements)}

unique(elements) ==
    [h \in HashesOf(elements) |->
        LET last == CHOOSE i \in 1..Len(elements) :
                        /\ elements[i].Hash = h
                        /\ \A j \in (i + 1)..Len(elements) : elements[j].Hash # h
        IN  elements[last]]

\* the orders in which a map with these keys can be ranged over
MapOrders(keys) ==
    {o \in [1..Cardinality(keys) -> keys] :
        \A i, j \in 1..Cardinality(keys) : i # j => o[i] # o[j]}

\* Rebuild without its call of Clear
RebuildSkipsClear(d, hs, order) ==
    LET r == ReadAll(d)
    IN  IF r.err # "nil" THEN [disk |-> d, hashSet |-> hs, err |-> r.err]
        ELSE
        LET u == unique(r.elements)
            i == Init(d, hs)
        IN  IF i.err # "nil" THEN [disk |-> i.disk, hashSet |-> i.hashSet, err |-> i.err]
            ELSE
            LET uniqueElements == [k \in 1..Len(order) |-> u[order[k]]]
                x == Index(i.disk, i.hashSet, uniqueElements)
            IN  [disk |-> x.disk, hashSet |-> x.hashSet, err |-> x.err]

Rebuild(d, hs, order) ==
    LET r == ReadAll(d)
    IN  IF r.err # "nil" THEN [disk |-> d, hashSet |-> hs, err |-> r.err]
        ELSE
        LET u == unique(r.elements)
            c == Clear(d, hs)
        IN  IF c.err # "nil" THEN [disk |-> c.disk, hashSet |-> c.hashSet, err |-> c.err]
            ELSE
            LET i == Init(c.disk, c.hashSet)
            IN  IF i.err # "nil" THEN [disk |-> i.disk, hashSet |-> i.hashSet, err |-> i.err]
                ELSE
                LET uniqueElements == [k \in 1..Len(order) |-> u[order[k]]]
                    x == Index(i.disk, i.hashSet, uniqueElements)
                IN  [disk |-> x.disk, hashSet |-> x.hashSet, err |-> x.err]

(***************************************************************************)
(* The read operations.  A predicate handed to Search is a field and the   *)
(* value it must equal, or "any".                                          *)
(***************************************************************************)
Preds ==
    {[field |-> "any", value |-> ""]}
    \cup {[field |-> "Name", value |-> e.Name] : e \in Elements}
    \cup {[field |-> "Type", value |-> e.Type] : e \in Elements}
    \cup {[field |-> "File", value |-> e.File] : e \in Elements}

\* the capital letters and, at the same places, the small ones
UpperLetters == "ABCDEFGHIJKLMNOPQRSTUVWXYZ"
LowerLetters == "abcdefghijklmnopqrstuvwxyz"

\* unicode.ToLower of one byte
LowerChar(c) ==
    IF \E i \in 1..Len(UpperLetters) : SubSeq(UpperLetters, i, i) = c
    THEN LET i == CHOOSE i \in 1..Len(UpperLetters) : SubSeq(UpperLetters, i, i) = c
         IN  SubSeq(LowerLetters, i, i)
    ELSE c

\* strings.ToLower, byte by byte
RECURSIVE ToLower(_)
ToLower(str) ==
    IF Len(str) = 0 THEN ""
    ELSE IF Len(str) = 1 THEN LowerChar(str)
    ELSE ToLower(SubSeq(str, 1, Len(str) \div 2))
         \o ToLower(SubSeq(str, Len(str) \div 2 + 1, Len(str)))

\* strings.Contains
Contains(str, substr) ==
    \E i \in 0..(Len(str) - Len(substr)) : SubSeq(str, i + 1, i + Len(substr)) = substr

\* cmdSearch's predicate with the body left out
matchesNameOnly(query, el) ==
    LET lowerQuery == ToLower(query)
    IN  Contains(ToLower(el.Name), lowerQuery)

\* the predicate cmdSearch hands to Search
matches(query, el) ==
    LET lowerQuery == ToLower(query)
    IN  \/ Contains(ToLower(el.Name), lowerQuery)
        \/ Contains(ToLower(el.Body), lowerQuery)

predicate(p, el) ==
    CASE p.field = "any"   -> TRUE
      [] p.field = "query" -> matches(p.value, el)
      [] OTHER             -> el[p.field] = p.value

RECURSIVE Filter(_, _)
Filter(tokens, p) ==
    IF tokens = <<>> THEN <<>>
    ELSE IF Decodes(Head(tokens)) /\ predicate(p, Unmarshal(Head(tokens)))
         THEN <<Unmarshal(Head(tokens))>> \o Filter(Tail(tokens), p)
         ELSE Filter(Tail(tokens), p)

\* Search that returns at its first match
SearchFirstMatch(d, p) ==
    IF ~d.exists THEN [elements |-> <<>>, err |-> "nil"]
    ELSE LET s == Scan(d.lines)
             all == Filter(s.tokens, p)
         IN  [elements |-> IF all = <<>> THEN <<>> ELSE <<Head(all)>>, err |-> s.err]

\* Indexer.Search: its own scan of the file
Search(d, p) ==
    IF ~d.exists THEN [elements |-> <<>>, err |-> "nil"]
    ELSE LET s == Scan(d.lines)
         IN  [elements |-> Filter(s.tokens, p), err |-> s.err]

FindByName(d, name) == Search(d, [field |-> "Name", value |-> name])
FindByType(d, elemType) == Search(d, [field |-> "Type", value |-> elemType])
FindByFile(d, filePath) == Search(d, [field |-> "File", value |-> filePath])

\* Indexer.Exists
Exists(hs, hash) == hash \in hs

RECURSIVE SumBody(_)
SumBody(elements) ==
    IF elements = <<>> THEN 0
    ELSE BodyLen(Head(elements).Body) + SumBody(Tail(elements))

CountBy(elements, field) ==
    [v \in {elements[i][field] : i \in 1..Len(elements)} |->
        Cardinality({i \in 1..Len(elements) : elements[i][field] = v})]

\* Indexer.GetStats; no statistics are returned with an error
GetStats(d) ==
    LET r == ReadAll(d)
    IN  IF r.err # "nil" THEN [stats |-> <<>>, err |-> r.err]
        ELSE [stats |-> [TotalElements |-> Len(r.elements),
                         ByType        |-> CountBy(r.elements, "Type"),
                         ByLanguage    |-> CountBy(r.elements, "Language"),
                         ByFile        |-> CountBy(r.elements, "File"),
                         TotalSize     |-> SumBody(r.elements)],
              err |-> "nil"]

(***************************************************************************)
(* Indexer.GetRAGIndex.  A RAGElement keeps the element's Type, Name, File *)
(* and Line (Signature, Docstring and the Summary text are renderings of   *)
(* them).                                                                  *)
(***************************************************************************)
RAGElement(el) == [Type |-> el.Type, Name |-> el.Name, File |-> el.File, Line |-> el.Line]

RECURSIVE Group(_, _, _)
Group(elements, field, v) ==
    IF elements = <<>> THEN <<>>
    ELSE IF Head(elements)[field] = v
         THEN <<RAGElement(Head(elements))>> \o Group(Tail(elements), field, v)
         ELSE Group(Tail(elements), field, v)

\* the byte order of the names in Elements, as Go's < on strings orders them
NameRank(name) ==
    CASE name = "Add" -> 1
      [] name = "Big" -> 2
      [] name = "T"   -> 3
      [] OTHER        -> 0

\* "a sorts before b" under the less function given to sort.Slice
Less(key, a, b) ==
    IF key = "Line" THEN a.Line < b.Line ELSE NameRank(a.Name) < NameRank(b.Name)

IsSorted(s, key) == \A i, j \in 1..Len(s) : i < j => ~Less(key, s[j], s[i])

\* how a build's sort.Slice leaves elements that compare equal: as they were, or reversed
SortBuilds == {"kept", "reversed"}

(***************************************************************************)
(* sort.Slice: the elements in the order of the less function.  The sort   *)
(* is a fixed procedure of the build, so one input has one result, but it  *)
(* is not stable: where elements that compare equal end up is the build's. *)
(***************************************************************************)
sortSlice(s, key, t) ==
    LET n == Len(s)
        before(i, j) == \/ Less(key, s[i], s[j])
                        \/ /\ ~Less(key, s[j], s[i])
                           /\ IF t = "kept" THEN i < j ELSE i > j
        p == CHOOSE p \in [1..n -> 1..n] :
                /\ \A i, j \in 1..n : i # j => p[i] # p[j]
                /\ \A i \in 1..(n - 1) : before(p[i], p[i + 1])
    IN  [i \in 1..n |-> s[p[i]]]

\* the map from each value of the field to its elements, each slice left unsorted
Unsorted(elements, field) ==
    [v \in {elements[i][field] : i \in 1..Len(elements)} |-> Group(elements, field, v)]

\* the map from each value of the field to its elements, each slice sorted
Grouped(elements, field, key, t) ==
    [v \in {elements[i][field] : i \in 1..Len(elements)} |->
        sortSlice(Group(elements, field, v), key, t)]

\* GetRAGIndex without the sort of the ByFile slices
GetRAGIndexLeavesFilesUnsorted(d, t) ==
    LET r == ReadAll(d)
    IN  IF r.err # "nil" THEN [output |-> <<>>, err |-> r.err]
        ELSE [output |-> [TotalElements |-> Len(r.elements),
                          ByFile |-> Unsorted(r.elements, "File"),
                          ByType |-> Grouped(r.elements, "Type", "Name", t)],
              err |-> "nil"]

\* Indexer.GetRAGIndex in a build whose sort arranges equal elements as t
GetRAGIndex(d, t) ==
    LET r == ReadAll(d)
    IN  IF r.err # "nil" THEN [output |-> <<>>, err |-> r.err]
        ELSE [output |-> [TotalElements |-> Len(r.elements),
                          ByFile |-> Grouped(r.elements, "File", "Line", t),
                          ByType |-> Grouped(r.elements, "Type", "Name", t)],
              err |-> "nil"]

(***************************************************************************)
(* The initial states: New(indexPath, dedup) over whatever the path holds. *)
(***************************************************************************)
NoDir == [dir |-> FALSE, exists |-> FALSE, lines |-> <<>>]
NoFile == [dir |-> TRUE, exists |-> FALSE, lines |-> <<>>]

\* no `index` command is running; no goroutine is started
NoCmd == [state |-> "none"]
NoGoroutines == [state |-> "none", fatal |-> FALSE]

New ==
    /\ cmd = NoCmd /\ gs = NoGoroutines
    /\ ties \in SortBuilds
    /\ deduplication \in BOOLEAN
    /\ disk \in {NoDir, NoFile}
            \cup {[dir |-> TRUE, exists |-> TRUE, lines |-> ls] :
                    ls \in SeqsUpTo(StoreLines, MaxInit)}
    /\ hashSet = {}
    /\ op = "New" /\ arg = <<>> /\ ret = 0 /\ err = "nil"
    /\ inited = FALSE /\ faulted = FALSE /\ rep = FALSE
    /\ fresh = (disk.lines = <<>>)
    /\ track \in BOOLEAN

ReadCalls == {"ReadAll", "Search", "FindByName", "FindByType", "FindByFile",
              "Exists", "GetStats", "GetRAGIndex"}

(***************************************************************************)
(* A run is any sequence of writing calls, observed by one reading call:   *)
(* a read leaves disk, hashSet and deduplication as they are, so the calls *)
(* that could follow it are the calls of the state it was made in.         *)
(***************************************************************************)
Open == op \notin ReadCalls

\* the history variables after a call `o` with argument `a` that returned `e`
Called(o, a, e) ==
    /\ op' = o /\ err' = e
    \* the argument of a reading call is always recorded: no call follows it
    /\ arg' = IF track \/ o \in ReadCalls THEN a ELSE <<>>
    \* the call repeats the call before it
    /\ rep' = (track /\ op = o /\ arg = a)
    /\ faulted' = (faulted \/ e # "nil")
    /\ UNCHANGED <<deduplication, fresh, track, cmd, gs, ties>>

CallInit ==
    /\ Open
    /\ LET r == Init(disk, hashSet)
       IN  /\ disk' = r.disk /\ hashSet' = r.hashSet
           /\ ret' = 0
           /\ inited' = (inited \/ r.err = "nil")
           /\ Called("Init", <<>>, r.err)

CallIndex(elements) ==
    /\ Open
    /\ LET r == Index(disk, hashSet, elements)
       IN  /\ Len(r.disk.lines) <= MaxStore
           /\ disk' = r.disk /\ hashSet' = r.hashSet
           /\ ret' = r.n
           /\ inited' = inited
           /\ Called("Index", elements, r.err)

CallClear ==
    /\ Open
    /\ LET r == Clear(disk, hashSet)
       IN  /\ disk' = r.disk /\ hashSet' = r.hashSet
           /\ ret' = 0
           /\ inited' = inited
           /\ Called("Clear", <<>>, r.err)

CallRebuild ==
    /\ Open
    /\ \E order \in MapOrders(HashesOf(ReadAll(disk).elements)) :
        LET r == Rebuild(disk, hashSet, order)
        IN  /\ disk' = r.disk /\ hashSet' = r.hashSet
            /\ ret' = 0
            \* Rebuild runs Init once ReadAll and Clear have succeeded
            /\ inited' = (inited \/ r.err = "nil")
            /\ Called("Rebuild", <<>>, r.err)

\* a call that reads: what it returned, and nothing else changes
Read(o, a, r, e) ==
    /\ Open
    /\ ret' = r
    /\ UNCHANGED <<disk, hashSet, inited>>
    /\ Called(o, a, e)

CallReadAll ==
    LET r == ReadAll(disk) IN Read("ReadAll", <<>>, r.elements, r.err)

CallSearch(p) ==
    LET r == Search(disk, p) IN Read("Search", <<p>>, r.elements, r.err)

CallFindByName(name) ==
    LET r == FindByName(disk, name) IN Read("FindByName", <<name>>, r.elements, r.err)

CallFindByType(elemType) ==
    LET r == FindByType(disk, elemType) IN Read("FindByType", <<elemType>>, r.elements, r.err)

CallFindByFile(filePath) ==
    LET r == FindByFile(disk, filePath) IN Read("FindByFile", <<filePath>>, r.elements, r.err)

CallExists(hash) ==
    Read("Exists", <<hash>>, Exists(hashSet, hash), "nil")

CallGetStats ==
    LET r == GetStats(disk) IN Read("GetStats", <<>>, r.stats, r.err)

CallGetRAGIndex ==
    LET r == GetRAGIndex(disk, ties) IN Read("GetRAGIndex", <<>>, r.output, r.err)

\* GetRAGIndex is called again, right after it returned
CallGetRAGIndexAgain ==
    /\ op = "GetRAGIndex"
    /\ LET r == GetRAGIndex(disk, ties)
       IN  /\ ret' = r.output
           /\ UNCHANGED <<disk, hashSet, inited>>
           /\ Called("GetRAGIndex", <<>>, r.err)

Next ==
    \/ CallInit
    \/ \E elements \in Batches : CallIndex(elements)
    \/ CallClear
    \/ CallRebuild
    \/ CallReadAll
    \/ \E p \in Preds : CallSearch(p)
    \/ \E e \in Elements : CallFindByName(e.Name)
    \/ \E e \in Elements : CallFindByType(e.Type)
    \/ \E e \in Elements : CallFindByFile(e.File)
    \/ \E hash \in Hashes : CallExists(hash)
    \/ CallGetStats
    \/ CallGetRAGIndex
    \/ CallGetRAGIndexAgain

Untracked == New /\ track = FALSE

Spec == Untracked /\ [][Next]_vars

(***************************************************************************)
(* The writing calls alone, with their arguments in the history, over a    *)
(* store that holds at most one line at construction.                      *)
(***************************************************************************)
NextWrite ==
    \/ CallInit
    \/ \E elements \in Batches : CallIndex(elements)
    \/ CallClear
    \/ CallRebuild

Tracked == New /\ track = TRUE /\ Len(disk.lines) <= 1 /\ ties = "kept"

SpecRepeat == Tracked /\ [][NextWrite]_vars

(***************************************************************************)
(* After a crash in the middle of an append: the store ends in the first   *)
(* bytes of a record, and a new instance is created over it.               *)
(***************************************************************************)
CrashStart ==
    /\ cmd = NoCmd /\ gs = NoGoroutines /\ ties = "kept"
    /\ deduplication \in BOOLEAN
    /\ \E ls \in SeqsUpTo(StoreLines, MaxInit - 1), e \in Elements :
          disk = [dir |-> TRUE, exists |-> TRUE, lines |-> Append(ls, Torn(e))]
    /\ hashSet = {}
    /\ op = "New" /\ arg = <<>> /\ ret = 0 /\ err = "nil"
    /\ inited = FALSE /\ faulted = FALSE /\ rep = FALSE
    /\ fresh = FALSE
    /\ track = TRUE

NextCrash ==
    \/ CallInit
    \/ \E elements \in Batches : CallIndex(elements)
    \/ CallReadAll

SpecCrash == CrashStart /\ [][NextCrash]_vars

(***************************************************************************)
(* The `index` command (cmdIndex) over the files the directory scan found. *)
(* A file is its path, whether it can be read, and its content: whether    *)
(* go/parser accepts it, and the declarations of the syntax tree the       *)
(* parser builds (for a rejected file, of the partial tree it returns with *)
(* the error).                                                             *)
(***************************************************************************)
\* most files of one run of the command
MaxFiles == 3

\* filepath.Ext of the paths in SourceFiles
Ext(filePath) ==
    CASE filePath \in {"a.go", "b.go", "c.go", "d.go", "g.go", "m.go", "r.go"} -> ".go"
      [] filePath = "tool.py" -> ".py"
      [] OTHER -> ""

\* GoParser.SupportsFile
SupportsFile(filePath) == Ext(filePath) = ".go"

(***************************************************************************)
(* The Go parser (GoParser).  A Go string is a string; the source text of  *)
(* a file is one.  The syntax tree go/parser builds is a tree of records:  *)
(* an expression carries its node type in x, a declaration in node, a spec *)
(* in spec.  A token.Pos is the byte offset in the text plus one, 0 being  *)
(* token.NoPos.  Nil is a nil pointer.                                     *)
(***************************************************************************)
Nil == [nil |-> TRUE]

Ident(name) == [x |-> "Ident", Name |-> name]
StarExpr(X) == [x |-> "StarExpr", X |-> X]
\* a generic type with its type argument: Stack[T]
IndexExpr(X, index) == [x |-> "IndexExpr", X |-> X, Index |-> index]
\* ast.Field and ast.FieldList
Field(names, type) == [Names |-> names, Type |-> type]
FieldList(list) == [List |-> list]

\* ast.FieldList.NumFields: a field without names counts once
RECURSIVE NumFieldsOf(_)
NumFieldsOf(list) ==
    IF list = <<>> THEN 0
    ELSE (IF Head(list).Names = <<>> THEN 1 ELSE Len(Head(list).Names))
         + NumFieldsOf(Tail(list))

NumFields(fields) == IF fields = Nil THEN 0 ELSE NumFieldsOf(fields.List)

\* GoParser.exprToString
RECURSIVE exprToString(_)
exprToString(expr) ==
    CASE expr.x = "Ident"         -> expr.Name
      [] expr.x = "StarExpr"      -> "*" \o exprToString(expr.X)
      [] expr.x = "ArrayType"     -> "[]" \o exprToString(expr.Elt)
      [] expr.x = "SelectorExpr"  -> exprToString(expr.X) \o "." \o expr.Sel
      [] expr.x = "MapType"       -> "map[" \o exprToString(expr.Key) \o "]"
                                        \o exprToString(expr.Value)
      [] expr.x = "InterfaceType" -> "interface{}"
      [] expr.x = "FuncType"      -> "func"
      [] OTHER                    -> "unknown"

\* getReceiverType that looks under one pointer only
getReceiverTypeOneStar(expr) ==
    CASE expr.x = "Ident" -> expr.Name
      [] expr.x = "StarExpr" -> IF expr.X.x = "Ident" THEN expr.X.Name ELSE "unknown"
      [] OTHER -> "unknown"

\* GoParser.getReceiverType
RECURSIVE getReceiverType(_)
getReceiverType(expr) ==
    CASE expr.x = "Ident"    -> expr.Name
      [] expr.x = "StarExpr" -> getReceiverType(expr.X)
      [] OTHER               -> "unknown"

\* the parameters one field of the list declares
ParamsOfField(field) ==
    LET typeStr == exprToString(field.Type)
    IN  IF Len(field.Names) = 0
        THEN <<[Name |-> "_", Type |-> typeStr]>>
        ELSE [i \in 1..Len(field.Names) |-> [Name |-> field.Names[i], Type |-> typeStr]]

RECURSIVE ParamsOf(_)
ParamsOf(list) ==
    IF list = <<>> THEN <<>> ELSE ParamsOfField(Head(list)) \o ParamsOf(Tail(list))

\* GoParser.extractParams; a nil and an empty []Parameter are both <<>>
extractParams(fields) ==
    IF fields = Nil THEN <<>> ELSE ParamsOf(fields.List)

\* the entries of `returns` one field of the result list gives
ReturnsOfField(field) ==
    LET typeStr == exprToString(field.Type)
    IN  IF Len(field.Names) > 0
        THEN [i \in 1..Len(field.Names) |-> field.Names[i] \o " " \o typeStr]
        ELSE <<typeStr>>

RECURSIVE ReturnsOf(_)
ReturnsOf(list) ==
    IF list = <<>> THEN <<>> ELSE ReturnsOfField(Head(list)) \o ReturnsOf(Tail(list))

\* strings.Join
RECURSIVE Join(_, _)
Join(elems, sep) ==
    IF elems = <<>> THEN ""
    ELSE IF Len(elems) = 1 THEN elems[1]
    ELSE elems[1] \o sep \o Join(Tail(elems), sep)

\* GoParser.extractReturns
extractReturns(fields) ==
    IF fields = Nil THEN ""
    ELSE IF Len(fields.List) = 0 THEN ""
    ELSE LET returns == ReturnsOf(fields.List)
         IN  IF Len(returns) = 1 THEN returns[1]
             ELSE "(" \o Join(returns, ", ") \o ")"

\* the names of the fields that have names: extractInterfaceMethods collects them
RECURSIVE NamesOf(_)
NamesOf(list) ==
    IF list = <<>> THEN <<>> ELSE Head(list).Names \o NamesOf(Tail(list))

\* GoParser.extractInterfaceMethods: never nil
extractInterfaceMethods(fields) ==
    IF fields = Nil THEN <<>> ELSE NamesOf(fields.List)

\* unicode.IsUpper, for the letters of identifiers
IsUpper(c) ==
    c \in {"A", "B", "C", "D", "E", "F", "G", "H", "I", "J", "K", "L", "M",
           "N", "O", "P", "Q", "R", "S", "T", "U", "V", "W", "X", "Y", "Z"}

\* ast.IsExported
IsExported(name) == Len(name) > 0 /\ IsUpper(SubSeq(name, 1, 1))

\* extractNodeBody that leaves out the last byte of the range
extractNodeBodyDropsLastByte(start, end, content) ==
    IF start = 0 \/ end = 0 THEN ""
    ELSE LET startIdx == start - 1
             endIdx == end - 1
         IN  IF startIdx < 0 \/ endIdx > Len(content) \/ startIdx >= endIdx THEN ""
             ELSE SubSeq(content, startIdx + 1, endIdx - 1)

\* GoParser.extractNodeBody: content[startIdx:endIdx]
extractNodeBody(start, end, content) ==
    IF start = 0 \/ end = 0 THEN ""
    ELSE LET startIdx == start - 1
             endIdx == end - 1
         IN  IF startIdx < 0 \/ endIdx > Len(content) \/ startIdx >= endIdx THEN ""
             ELSE SubSeq(content, startIdx + 1, endIdx)

\* the number of newlines among the first n bytes
Newlines(content, n) == Cardinality({i \in 1..n : SubSeq(content, i, i) = "\n"})

\* fset.Position(pos).Line: 0 for a position outside the file
LineOf(content, pos) ==
    IF pos < 1 \/ pos > Len(content) + 1 THEN 0
    ELSE 1 + Newlines(content, pos - 1)

\* extractFunction that decides Exports by the name it gives the element
extractFunctionExportsByElementName(node, filePath, content, now) ==
    IF node.Name = Nil THEN Nil
    ELSE
    LET body == extractNodeBody(node.Pos, node.End, content)
        name == IF node.Recv # Nil /\ NumFields(node.Recv) > 0
                THEN getReceiverType(node.Recv.List[1].Type) \o "." \o node.Name.Name
                ELSE node.Name.Name
    IN  [Type |-> "function", Name |-> name, File |-> filePath,
         Line |-> LineOf(content, node.Pos), Hash |-> HashCode(body),
         Params |-> extractParams(node.Params), Returns |-> extractReturns(node.Results),
         Methods |-> "nil", Body |-> body, Exports |-> IsExported(name),
         Language |-> "go", IndexedAt |-> now]

\* extractFunction that hashes the file path with the body
extractFunctionHashesPath(node, filePath, content, now) ==
    IF node.Name = Nil THEN Nil
    ELSE
    LET body == extractNodeBody(node.Pos, node.End, content)
        name == IF node.Recv # Nil /\ NumFields(node.Recv) > 0
                THEN getReceiverType(node.Recv.List[1].Type) \o "." \o node.Name.Name
                ELSE node.Name.Name
    IN  [Type |-> "function", Name |-> name, File |-> filePath,
         Line |-> LineOf(content, node.Pos), Hash |-> HashCode(filePath \o body),
         Params |-> extractParams(node.Params), Returns |-> extractReturns(node.Results),
         Methods |-> "nil", Body |-> body, Exports |-> IsExported(node.Name.Name),
         Language |-> "go", IndexedAt |-> now]

(***************************************************************************)
(* GoParser.extractFunction: the element of a function declaration, or Nil.*)
(* now is what time.Now() returns.  EndLine, Docstring and Imports are     *)
(* left out of the element.                                                *)
(***************************************************************************)
extractFunction(node, filePath, content, now) ==
    IF node.Name = Nil THEN Nil
    ELSE
    LET body == extractNodeBody(node.Pos, node.End, content)
        name == IF node.Recv # Nil /\ NumFields(node.Recv) > 0
                THEN getReceiverType(node.Recv.List[1].Type) \o "." \o node.Name.Name
                ELSE node.Name.Name
    IN  [Type |-> "function", Name |-> name, File |-> filePath,
         Line |-> LineOf(content, node.Pos), Hash |-> HashCode(body),
         Params |-> extractParams(node.Params), Returns |-> extractReturns(node.Results),
         Methods |-> "nil", Body |-> body, Exports |-> IsExported(node.Name.Name),
         Language |-> "go", IndexedAt |-> now]

(***************************************************************************)
(* GoParser.extractType: the element of one type spec.  Line, Body and     *)
(* Hash are taken from decl, the declaration the spec stands in.  Fields   *)
(* is left out of the element.                                             *)
(***************************************************************************)
extractType(spec, decl, filePath, content, now) ==
    LET body == extractNodeBody(decl.Pos, decl.End, content)
    IN  [Type |-> CASE spec.Type.x = "StructType" -> "struct"
                    [] spec.Type.x = "InterfaceType" -> "interface"
                    [] OTHER -> "type",
         Name |-> spec.Name.Name, File |-> filePath,
         Line |-> LineOf(content, decl.Pos), Hash |-> HashCode(body),
         Params |-> <<>>, Returns |-> "",
         Methods |-> CASE spec.Type.x = "StructType" -> "empty"
                       [] spec.Type.x = "InterfaceType" ->
                            IF extractInterfaceMethods(spec.Type.Methods) = <<>>
                            THEN "empty" ELSE "some"
                       [] OTHER -> "nil",
         Body |-> body, Exports |-> IsExported(spec.Name.Name),
         Language |-> "go", IndexedAt |-> now]

\* Parse's loop over the specs of a declaration: an element for each type spec
RECURSIVE TypeSpecs(_, _, _, _, _)
TypeSpecs(specs, decl, filePath, content, now) ==
    IF specs = <<>> THEN <<>>
    ELSE (IF Head(specs).spec = "TypeSpec"
          THEN <<extractType(Head(specs), decl, filePath, content, now)>>
          ELSE <<>>)
         \o TypeSpecs(Tail(specs), decl, filePath, content, now)

(***************************************************************************)
(* ast.Inspect with Parse's callback, over declarations in source order: a *)
(* function declaration is visited before the declarations in its body.    *)
(***************************************************************************)
RECURSIVE Inspect(_, _, _, _)
Inspect(nodes, filePath, content, now) ==
    IF nodes = <<>> THEN <<>>
    ELSE LET n == Head(nodes)
         IN  (CASE n.node = "FuncDecl" ->
                     (IF extractFunction(n, filePath, content, now) = Nil THEN <<>>
                      ELSE <<extractFunction(n, filePath, content, now)>>)
                     \o Inspect(n.Stmts, filePath, content, now)
                [] n.node = "GenDecl" -> TypeSpecs(n.Specs, n, filePath, content, now)
                [] OTHER -> <<>>)
             \o Inspect(Tail(nodes), filePath, content, now)

\* Parse without the return in `if err != nil`: it walks the partial tree
ParseWalksPartialTree(filePath, content, now) ==
    [Elements |-> Inspect(content.Decls, filePath, content.text, now),
     Errors   |-> IF content.ok THEN <<>> ELSE <<[Message |-> "syntax error"]>>,
     err      |-> "nil"]

(***************************************************************************)
(* GoParser.Parse: the result and the error it returns.  content is the    *)
(* text of the file with what parser.ParseFile makes of it: whether it     *)
(* accepts the text, and the tree (or partial tree) it returns.            *)
(***************************************************************************)
Parse(filePath, content, now) ==
    IF ~content.ok
    THEN [Elements |-> <<>>, Errors |-> <<[Message |-> "syntax error"]>>, err |-> "nil"]
    ELSE [Elements |-> Inspect(content.Decls, filePath, content.text, now),
          Errors   |-> <<>>,
          err      |-> "nil"]

(***************************************************************************)
(* Source files.  A declaration is written as its text and its tree; a     *)
(* declaration inside another says at which offset of the outer text it    *)
(* starts.  ParseFile puts the declarations one per line after the package *)
(* clause and gives every node its positions.                              *)
(***************************************************************************)
FuncDecl(name, recv, params, results, stmts) ==
    [node |-> "FuncDecl", Name |-> [Name |-> name], Recv |-> recv,
     Params |-> params, Results |-> results, Stmts |-> stmts]

GenDecl(tok, specs) == [node |-> "GenDecl", Tok |-> tok, Specs |-> specs]

\* a type spec, with where its own text starts in the declaration and how long it is
TypeSpec(name, type, off, len) ==
    [spec |-> "TypeSpec", Name |-> [Name |-> name], Type |-> type, off |-> off, len |-> len]

srcAdd ==
    [src |-> "func Add(a, b int) int { return a + b }", off |-> 0,
     node |-> FuncDecl("Add", Nil, FieldList(<<Field(<<"a", "b">>, Ident("int"))>>),
                       FieldList(<<Field(<<>>, Ident("int"))>>), <<>>)]

srcHelper ==
    [src |-> "func (t *T) helper() {}", off |-> 0,
     node |-> FuncDecl("helper", FieldList(<<Field(<<"t">>, StarExpr(Ident("T")))>>),
                       FieldList(<<>>), Nil, <<>>)]

\* a receiver under two pointers: go/parser accepts it, the type checker would not
srcDeep ==
    [src |-> "func (t **T) Deep() (n int, err error) {}", off |-> 0,
     node |-> FuncDecl("Deep", FieldList(<<Field(<<"t">>, StarExpr(StarExpr(Ident("T"))))>>),
                       FieldList(<<>>),
                       FieldList(<<Field(<<"n">>, Ident("int")),
                                   Field(<<"err">>, Ident("error"))>>), <<>>)]

\* a method of a value receiver without a name
srcValue ==
    [src |-> "func (T) String() string {}", off |-> 0,
     node |-> FuncDecl("String", FieldList(<<Field(<<>>, Ident("T"))>>),
                       FieldList(<<>>), FieldList(<<Field(<<>>, Ident("string"))>>), <<>>)]

\* a method of a generic type
srcPush ==
    [src |-> "func (s *Stack[E]) Push(E) {}", off |-> 0,
     node |-> FuncDecl("Push",
                       FieldList(<<Field(<<"s">>,
                                         StarExpr(IndexExpr(Ident("Stack"), Ident("E"))))>>),
                       FieldList(<<Field(<<>>, Ident("E"))>>), Nil, <<>>)]

srcT ==
    [src |-> "type T struct{}", off |-> 0,
     node |-> GenDecl("type", <<TypeSpec("T", [x |-> "StructType"], 5, 10)>>)]

srcReader ==
    [src |-> "type Reader interface{ Read() }", off |-> 0,
     node |-> GenDecl("type",
                 <<TypeSpec("Reader",
                            [x |-> "InterfaceType",
                             Methods |-> FieldList(<<Field(<<"Read">>, [x |-> "FuncType"])>>)],
                            5, 26)>>)]

\* two type specs in one parenthesized declaration
srcGroup ==
    [src |-> "type ( A struct{}; B int )", off |-> 0,
     node |-> GenDecl("type", <<TypeSpec("A", [x |-> "StructType"], 7, 10),
                                TypeSpec("B", Ident("int"), 19, 5)>>)]

srcVar ==
    [src |-> "var x = 1", off |-> 0,
     node |-> GenDecl("var", <<[spec |-> "ValueSpec"]>>)]

\* a function with a type declared in its body
srcLocal ==
    [src |-> "func g() { type pair struct{} }", off |-> 0,
     node |-> FuncDecl("g", Nil, FieldList(<<>>), Nil,
                 <<[src |-> "type pair struct{}", off |-> 11,
                    node |-> GenDecl("type",
                                <<TypeSpec("pair", [x |-> "StructType"], 5, 13)>>)]>>)]

\* the node of a declaration whose text starts at pos
RECURSIVE Place(_, _)
Place(decl, pos) ==
    LET n == decl.node
    IN  [k \in DOMAIN n \cup {"Pos", "End"} |->
            CASE k = "Pos"   -> pos
              [] k = "End"   -> pos + Len(decl.src)
              [] k = "Stmts" -> [i \in 1..Len(n.Stmts) |->
                                    Place(n.Stmts[i], pos + n.Stmts[i].off)]
              [] OTHER       -> n[k]]

RECURSIVE Layout(_, _)
Layout(decls, pos) ==
    IF decls = <<>> THEN <<>>
    ELSE <<Place(Head(decls), pos)>>
         \o Layout(Tail(decls), pos + Len(Head(decls).src) + 1)

RECURSIVE TextOf(_)
TextOf(decls) ==
    IF decls = <<>> THEN "" ELSE Head(decls).src \o "\n" \o TextOf(Tail(decls))

PackageClause == "package p\n"

\* parser.ParseFile: the text, whether it is accepted, and the tree
ParseFile(ok, decls) ==
    [ok |-> ok, text |-> PackageClause \o TextOf(decls),
     Decls |-> Layout(decls, Len(PackageClause) + 1)]

SourceFiles ==
    {[Path |-> "a.go", readable |-> TRUE, content |-> ParseFile(TRUE, <<srcAdd, srcT>>)],
     \* the text of Add again, in another file at another line
     [Path |-> "b.go", readable |-> TRUE, content |-> ParseFile(TRUE, <<srcVar, srcAdd>>)],
     \* a syntax error after two declarations
     [Path |-> "c.go", readable |-> TRUE, content |-> ParseFile(FALSE, <<srcAdd, srcHelper>>)],
     \* a syntax error before any declaration
     [Path |-> "b.go", readable |-> TRUE, content |-> ParseFile(FALSE, <<>>)],
     [Path |-> "c.go", readable |-> FALSE, content |-> ParseFile(TRUE, <<srcT>>)],
     [Path |-> "tool.py", readable |-> TRUE, content |-> ParseFile(FALSE, <<>>)],
     [Path |-> "m.go", readable |-> TRUE, content |-> ParseFile(TRUE, <<srcAdd, srcHelper>>)],
     [Path |-> "g.go", readable |-> TRUE, content |-> ParseFile(TRUE, <<srcGroup>>)]}

\* cmdIndex is entered: indexer.New(indexPath, true) over whatever the path holds
cmdIndexStart ==
    /\ cmd \in {[state |-> "init", files |-> fs, i |-> 1,
                 totalElements |-> 0, totalFiles |-> 0, warnings |-> 0] :
                    fs \in SeqsUpTo(SourceFiles, MaxFiles)}
    /\ gs = NoGoroutines /\ ties = "kept"
    /\ deduplication = TRUE
    /\ disk \in {NoDir, NoFile}
            \cup {[dir |-> TRUE, exists |-> TRUE, lines |-> <<l>>] : l \in StoreLines}
    /\ hashSet = {}
    /\ op = "New" /\ arg = <<>> /\ ret = 0 /\ err = "nil"
    /\ inited = FALSE /\ faulted = FALSE /\ rep = FALSE
    /\ fresh = (disk.lines = <<>>)
    /\ track = FALSE

\* idx.Init(); the command exits when it fails
cmdIndexInit ==
    /\ cmd.state = "init"
    /\ LET r == Init(disk, hashSet)
       IN  /\ disk' = r.disk /\ hashSet' = r.hashSet
           /\ inited' = (r.err = "nil")
           /\ faulted' = (r.err # "nil")
           /\ cmd' = [cmd EXCEPT !.state = IF r.err = "nil" THEN "loop" ELSE "exit"]
    /\ UNCHANGED <<deduplication, op, arg, ret, err, fresh, track, rep, gs, ties>>

\* one turn of the loop over the files
cmdIndexFile ==
    /\ cmd.state = "loop" /\ cmd.i <= Len(cmd.files)
    /\ LET file == cmd.files[cmd.i]
           next == [cmd EXCEPT !.i = @ + 1]
       IN  IF ~SupportsFile(file.Path)
           THEN cmd' = next /\ UNCHANGED <<disk, hashSet, faulted>>
           ELSE IF ~file.readable
           THEN cmd' = [next EXCEPT !.warnings = @ + 1] /\ UNCHANGED <<disk, hashSet, faulted>>
           ELSE LET result == Parse(file.Path, file.content, cmd.i)
                    warned == IF Len(result.Errors) > 0 THEN 1 ELSE 0
                IN  IF result.err # "nil"
                    THEN cmd' = [next EXCEPT !.warnings = @ + 1]
                         /\ UNCHANGED <<disk, hashSet, faulted>>
                    ELSE LET x == Index(disk, hashSet, result.Elements)
                         IN  /\ disk' = x.disk /\ hashSet' = x.hashSet
                             /\ faulted' = (faulted \/ x.err # "nil")
                             /\ cmd' = IF x.err # "nil"
                                       THEN [next EXCEPT !.warnings = @ + warned + 1]
                                       ELSE [next EXCEPT
                                               !.warnings = @ + warned,
                                               !.totalElements = @ + x.n,
                                               !.totalFiles = @ + 1]
    /\ UNCHANGED <<deduplication, op, arg, ret, err, inited, fresh, track, rep, gs, ties>>

\* the loop has ended: the totals are printed
cmdIndexDone ==
    /\ cmd.state = "loop" /\ cmd.i > Len(cmd.files)
    /\ cmd' = [cmd EXCEPT !.state = "done"]
    /\ UNCHANGED <<disk, deduplication, hashSet, op, arg, ret, err,
                   inited, faulted, fresh, track, rep, gs, ties>>

NextCmd ==
    \/ cmdIndexInit
    \/ cmdIndexFile
    \/ cmdIndexDone

SpecCmd == cmdIndexStart /\ [][NextCmd]_vars

(***************************************************************************)
(* Parse called again and again on one file.  The trees of SourceFiles and *)
(* of r.go are the ones go/parser returns for the text; a displaced        *)
(* declaration is a tree whose positions were not taken from the text it   *)
(* is extracted with, NoPos included.                                      *)
(***************************************************************************)
\* most calls of Parse in one run
MaxParses == 2

srcF ==
    [src |-> "func f(){}", off |-> 0,
     node |-> FuncDecl("f", Nil, FieldList(<<>>), Nil, <<>>)]

srcU ==
    [src |-> "type U int", off |-> 0,
     node |-> GenDecl("type", <<TypeSpec("U", Ident("int"), 5, 5)>>)]

Displaced(decl) ==
    LET content == ParseFile(TRUE, <<decl>>)
    IN  {[Path |-> "d.go", readable |-> TRUE,
          content |-> [content EXCEPT !.Decls[1].Pos = pos, !.Decls[1].End = end]] :
            pos \in 0..(Len(content.text) + 2), end \in 0..(Len(content.text) + 2)}

ParseInputs ==
    {f \in SourceFiles : SupportsFile(f.Path) /\ f.readable}
    \cup {[Path |-> "r.go", readable |-> TRUE,
           content |-> ParseFile(TRUE, <<srcDeep, srcValue, srcPush, srcReader, srcLocal>>)]}
    \cup Displaced(srcF) \cup Displaced(srcU)

ParseStart ==
    /\ cmd = [state |-> "parse", now |-> 1]
    /\ gs = NoGoroutines /\ ties = "kept"
    /\ deduplication = TRUE
    /\ disk = NoFile
    /\ hashSet = {}
    /\ op = "New" /\ ret = 0 /\ err = "nil"
    /\ \E f \in ParseInputs : arg = <<f>>
    /\ inited = FALSE /\ faulted = FALSE /\ rep = FALSE
    /\ fresh = TRUE
    /\ track = TRUE

\* p.Parse(file, content) on the file of this run, at the time the clock shows
CallParse ==
    /\ cmd.state = "parse" /\ cmd.now <= MaxParses
    /\ LET result == Parse(arg[1].Path, arg[1].content, cmd.now)
       IN  /\ ret' = result
           /\ err' = result.err
    /\ op' = "Parse"
    /\ cmd' = [cmd EXCEPT !.now = @ + 1]
    /\ UNCHANGED <<disk, deduplication, hashSet, arg, inited, faulted, fresh, track, rep,
                   gs, ties>>

NextParse ==
    \/ CallParse

SpecParse == ParseStart /\ [][NextParse]_vars

(***************************************************************************)
(* The `search` command (cmdSearch) over a store of functions.  It makes   *)
(* an Indexer over the store without Init, searches, and prints an error,  *)
(* "No results found", or the first ten results.                           *)
(***************************************************************************)
fn(name, body, line) ==
    [Type |-> "function", Name |-> name, File |-> "main.go", Line |-> line,
     Hash |-> HashCode(body), Methods |-> "nil", Body |-> body, Language |-> "go",
     IndexedAt |-> 1]

eQwen == fn("generateQwenCommitMessage", "func generateQwenCommitMessage() {}", 221)
eClaude == fn("generateClaudeCommitMessage", "func generateClaudeCommitMessage() {}", 291)
eSummary == fn("generateSummary", "func generateSummary() {}", 300)
\* a function that calls generateCommitMessage
eMain == fn("main", "func main() { generateCommitMessage() }", 10)

SearchLines == {Encode(e) : e \in {eQwen, eClaude, eSummary, eMain, eBig}} \cup {Garbage}

\* the number of results cmdSearch prints at most
ResultLimit == 10

\* the three functions; the three and a caller; more matching functions than are printed
ThreeFunctions == <<Encode(eQwen), Encode(eClaude), Encode(eSummary)>>
ManyCallers ==
    [k \in 1..(ResultLimit + 1) |-> Encode(fn("main", "func main() { generateCommitMessage() }", k))]

SearchStores ==
    SeqsUpTo(SearchLines, MaxStore)
    \cup {ThreeFunctions, Append(ThreeFunctions, Encode(eMain)), ManyCallers}

Queries == {"generateCommitMessage", "COMMITMESSAGE", "Summary", "zzz"}

\* cmdSearch: what it prints and the status it exits with
cmdSearch(d, query) ==
    LET r == Search(d, [field |-> "query", value |-> query])
    IN  IF r.err # "nil" THEN [out |-> "Error", results |-> <<>>, exit |-> 1]
        ELSE IF Len(r.elements) = 0
        THEN [out |-> "No results found", results |-> <<>>, exit |-> 0]
        ELSE [out |-> "Found",
              results |-> IF Len(r.elements) > ResultLimit
                          THEN SubSeq(r.elements, 1, ResultLimit) ELSE r.elements,
              exit |-> 0]

cmdSearchStart ==
    /\ cmd = [state |-> "search"]
    /\ gs = NoGoroutines /\ ties = "kept"
    /\ deduplication = TRUE
    /\ disk \in {NoFile} \cup {[dir |-> TRUE, exists |-> TRUE, lines |-> ls] : ls \in SearchStores}
    /\ hashSet = {}
    /\ op = "New" /\ ret = 0 /\ err = "nil"
    /\ \E query \in Queries : arg = <<query>>
    /\ inited = FALSE /\ faulted = FALSE /\ rep = FALSE
    /\ fresh = (disk.lines = <<>>)
    /\ track = TRUE

cmdSearchRun ==
    /\ cmd.state = "search"
    /\ ret' = cmdSearch(disk, arg[1])
    /\ err' = Search(disk, [field |-> "query", value |-> arg[1]]).err
    /\ op' = "cmdSearch"
    /\ cmd' = [state |-> "exit"]
    /\ UNCHANGED <<disk, deduplication, hashSet, arg, inited, faulted, fresh, track, rep,
                   gs, ties>>

NextSearch ==
    \/ cmdSearchRun

SpecSearch == cmdSearchStart /\ [][NextSearch]_vars

(***************************************************************************)
(* Goroutines that call one instance concurrently, each making one call.   *)
(* gs.mu is the instance's sync.RWMutex: the goroutine that holds it for   *)
(* writing and those that hold it for reading.  gs.pc is where each        *)
(* goroutine stands in its call, gs.loc its local variables and what its   *)
(* call returned.  gs.hs0 and gs.lines0 keep the hash set and the file as  *)
(* they were when the goroutines were started; loc.had is the number of    *)
(* records a reader would have been given by the file as it was when the   *)
(* read began.  A write of one record to                                   *)
(* the file is one write(2); a reader of the file may see it whole, or see *)
(* its first bytes before the rest.                                        *)
(***************************************************************************)
\* the goroutines that call Init, Index and Clear, and the one that reads
Writers == {"g1", "g2"}
Readers == {"g3"}
Procs == Writers \cup Readers

Idle == [call |-> "none", batch |-> <<>>, toWrite |-> <<>>, k |-> 0, h |-> "",
         p |-> [field |-> "any", value |-> ""], had |-> 0, pos |-> 0, out |-> <<>>,
         n |-> 0, res |-> FALSE, err |-> "nil"]

\* the predicates the concurrent readers search with
ReaderPreds == {[field |-> "Type", value |-> "function"]}

\* the batches the goroutines index: the elements one parse found, each once
ConcBatches ==
    {b \in Batches : b # <<>> /\ \A i, j \in 1..Len(b) : i # j => b[i] # b[j]}

\* RWMutex.RLock that does not wait for the goroutine holding the lock for writing
CanRLockIgnoresWriter(mu) == TRUE

\* RWMutex.RLock can proceed
CanRLock(mu) == mu.writer = "none"

\* RWMutex.Lock can proceed
CanLock(mu) == mu.writer = "none" /\ mu.readers = {}

\* how a goroutine at pc touches idx.hashSet: it writes it, reads it, or neither
Access(pc) ==
    CASE pc \in {"Index.loop", "Init.load", "Clear.body", "Rebuild.init"} -> "write"
      [] pc = "Exists.read" -> "read"
      [] OTHER -> "none"

\* goroutine g touches the hash set while another goroutine writes it, or the reverse
Races(g) ==
    /\ Access(gs.pc[g]) # "none"
    /\ \E o \in Procs \ {g} :
          /\ Access(gs.pc[o]) # "none"
          /\ "write" \in {Access(gs.pc[g]), Access(gs.pc[o])}

Running == gs.state = "run" /\ ~gs.fatal

Started(hs, d) ==
    [state |-> "run", fatal |-> FALSE,
     mu |-> [writer |-> "none", readers |-> {}],
     pc |-> [g \in Procs |-> "idle"],
     loc |-> [g \in Procs |-> Idle],
     hs0 |-> hs, lines0 |-> d.lines]

\* the variables the goroutines leave alone
Quiet ==
    UNCHANGED <<deduplication, op, arg, ret, err, inited, faulted, fresh, track, rep, cmd, ties>>

\* goroutine g moves to pc with the locals l, the mutex becoming mu
Step(g, pc, l, mu) ==
    gs' = [gs EXCEPT !.pc[g] = pc, !.loc[g] = l, !.mu = mu]

\* Index: idx.mu.Lock()
IndexLock(g, elements) ==
    /\ Running /\ gs.pc[g] = "idle" /\ CanLock(gs.mu)
    /\ Step(g, "Index.loop", [Idle EXCEPT !.call = "Index", !.batch = elements],
            [gs.mu EXCEPT !.writer = g])
    /\ UNCHANGED <<disk, hashSet>> /\ Quiet

\* Index: the loop over the elements; appendToIndex fails at once without the directory
IndexLoopAct(g) ==
    /\ Running /\ gs.pc[g] = "Index.loop"
    /\ LET l == IndexLoop(gs.loc[g].batch, <<>>, hashSet)
       IN  /\ hashSet' = l.hashSet
           /\ IF Len(l.toWrite) = 0
              THEN Step(g, "Index.unlock", gs.loc[g], gs.mu)
              ELSE IF appendToIndex(disk, l.toWrite).err # "nil"
              THEN Step(g, "Index.unlock",
                        [gs.loc[g] EXCEPT !.err = appendToIndex(disk, l.toWrite).err], gs.mu)
              ELSE Step(g, "Index.append", [gs.loc[g] EXCEPT !.toWrite = l.toWrite], gs.mu)
    /\ UNCHANGED disk /\ Quiet

\* the locals after record k + 1 of toWrite is in the file
Wrote(l) ==
    [l EXCEPT !.k = @ + 1, !.n = IF l.k + 1 = Len(l.toWrite) THEN Len(l.toWrite) ELSE 0]

AfterWrite(l) == IF l.k + 1 = Len(l.toWrite) THEN "Index.unlock" ELSE "Index.append"

\* appendToIndex: encoder.Encode(element), the whole line reaching the file at once
AppendWrite(g) ==
    /\ Running /\ gs.pc[g] = "Index.append"
    /\ LET l == gs.loc[g]
       IN  /\ disk' = [disk EXCEPT !.exists = TRUE,
                                   !.lines = Append(@, Encode(l.toWrite[l.k + 1]))]
           /\ Step(g, AfterWrite(l), Wrote(l), gs.mu)
    /\ UNCHANGED hashSet /\ Quiet

\* appendToIndex: the first bytes of the line are in the file
AppendTear(g) ==
    /\ Running /\ gs.pc[g] = "Index.append"
    /\ LET l == gs.loc[g]
       IN  /\ disk' = [disk EXCEPT !.exists = TRUE,
                                   !.lines = Append(@, Torn(l.toWrite[l.k + 1]))]
           /\ Step(g, "Index.torn", l, gs.mu)
    /\ UNCHANGED hashSet /\ Quiet

\* appendToIndex: the rest of the line is in the file
AppendRest(g) ==
    /\ Running /\ gs.pc[g] = "Index.torn"
    /\ LET l == gs.loc[g]
       IN  /\ disk' = [disk EXCEPT !.lines[Len(disk.lines)] = Encode(l.toWrite[l.k + 1])]
           /\ Step(g, AfterWrite(l), Wrote(l), gs.mu)
    /\ UNCHANGED hashSet /\ Quiet

\* Index: the deferred idx.mu.Unlock() and the return
IndexUnlock(g) ==
    /\ Running /\ gs.pc[g] = "Index.unlock"
    /\ Step(g, "done", gs.loc[g], [gs.mu EXCEPT !.writer = "none"])
    /\ UNCHANGED <<disk, hashSet>> /\ Quiet

\* Exists: idx.mu.RLock()
ExistsRLock(g, hash) ==
    /\ Running /\ gs.pc[g] = "idle" /\ CanRLock(gs.mu)
    /\ Step(g, "Exists.read", [Idle EXCEPT !.call = "Exists", !.h = hash],
            [gs.mu EXCEPT !.readers = @ \cup {g}])
    /\ UNCHANGED <<disk, hashSet>> /\ Quiet

\* Exists: the map read, the deferred RUnlock and the return
ExistsReturn(g) ==
    /\ Running /\ gs.pc[g] = "Exists.read"
    /\ Step(g, "done", [gs.loc[g] EXCEPT !.res = Exists(hashSet, gs.loc[g].h)],
            [gs.mu EXCEPT !.readers = @ \ {g}])
    /\ UNCHANGED <<disk, hashSet>> /\ Quiet

\* ReadAll, or Search with predicate p: os.Open; neither takes the lock
ReadOpen(g, call, p) ==
    /\ Running /\ gs.pc[g] = "idle"
    /\ Step(g, IF disk.exists THEN "Read.scan" ELSE "done",
            [Idle EXCEPT !.call = call, !.p = p, !.had = Len(Filter(disk.lines, p))],
            gs.mu)
    /\ UNCHANGED <<disk, hashSet>> /\ Quiet

\* ReadAll or Search: the scanner's next line, or the end of what the file holds now
ReadScan(g) ==
    /\ Running /\ gs.pc[g] = "Read.scan"
    /\ LET l == gs.loc[g]
       IN  IF l.pos = Len(disk.lines)
           THEN Step(g, "done", l, gs.mu)
           ELSE LET line == disk.lines[l.pos + 1]
                IN  IF TooLong(line)
                    THEN Step(g, "done", [l EXCEPT !.err = "ErrTooLong"], gs.mu)
                    ELSE IF IsTorn(line)
                    \* an unterminated last line is the scanner's last token
                    THEN Step(g, "done", l, gs.mu)
                    ELSE IF Decodes(line) /\ predicate(l.p, Unmarshal(line))
                    THEN Step(g, "Read.scan",
                              [l EXCEPT !.pos = @ + 1, !.out = Append(@, Unmarshal(line))],
                              gs.mu)
                    ELSE Step(g, "Read.scan", [l EXCEPT !.pos = @ + 1], gs.mu)
    /\ UNCHANGED <<disk, hashSet>> /\ Quiet

\* Init: os.MkdirAll; it takes no lock
InitBegin(g) ==
    /\ Running /\ gs.pc[g] = "idle"
    /\ disk' = [disk EXCEPT !.dir = TRUE]
    /\ Step(g, IF deduplication THEN "Init.load" ELSE "done",
            [Idle EXCEPT !.call = "Init"], gs.mu)
    /\ UNCHANGED hashSet /\ Quiet

(***************************************************************************)
(* Init: loadExistingHashes fills the map.  When another goroutine touches *)
(* the map at that time, the runtime may stop the program ("concurrent map *)
(* writes", "concurrent map read and map write") or may not notice.        *)
(***************************************************************************)
InitLoad(g) ==
    /\ Running /\ gs.pc[g] = "Init.load"
    /\ LET l == loadExistingHashes(disk, hashSet)
       IN  \E fatal \in {FALSE, Races(g)} :
              /\ hashSet' = IF fatal THEN hashSet ELSE l.hashSet
              /\ gs' = [gs EXCEPT !.pc[g] = "done",
                                  !.loc[g] = [gs.loc[g] EXCEPT !.err = l.err],
                                  !.fatal = fatal]
    /\ UNCHANGED disk /\ Quiet

\* Clear: idx.mu.Lock()
ClearLock(g) ==
    /\ Running /\ gs.pc[g] = "idle" /\ CanLock(gs.mu)
    /\ Step(g, "Clear.body", [Idle EXCEPT !.call = "Clear"], [gs.mu EXCEPT !.writer = g])
    /\ UNCHANGED <<disk, hashSet>> /\ Quiet

\* Clear: the new map, os.Remove, the deferred Unlock and the return
ClearUnlock(g) ==
    /\ Running /\ gs.pc[g] = "Clear.body"
    /\ LET c == Clear(disk, hashSet)
       IN  /\ disk' = c.disk /\ hashSet' = c.hashSet
           /\ Step(g, "done", [gs.loc[g] EXCEPT !.err = c.err],
                   [gs.mu EXCEPT !.writer = "none"])
    /\ Quiet

\* an initialized deduplicating instance is handed to the goroutines
ConcStart ==
    /\ cmd = NoCmd /\ ties = "kept"
    /\ deduplication = TRUE
    /\ \E d \in {NoFile} \cup {[dir |-> TRUE, exists |-> TRUE, lines |-> <<l>>] :
                                  l \in StoreLines} :
          /\ Init(d, {}).err = "nil"
          /\ disk = Init(d, {}).disk
          /\ hashSet = Init(d, {}).hashSet
    /\ gs = Started(hashSet, disk)
    /\ op = "Init" /\ arg = <<>> /\ ret = 0 /\ err = "nil"
    /\ inited = TRUE /\ faulted = FALSE /\ rep = FALSE
    /\ fresh = (disk.lines = <<>>)
    /\ track = FALSE

NextConc ==
    \/ \E g \in Writers, elements \in ConcBatches : IndexLock(g, elements)
    \/ \E g \in Writers : IndexLoopAct(g)
    \/ \E g \in Writers : AppendWrite(g)
    \/ \E g \in Writers : AppendTear(g)
    \/ \E g \in Writers : AppendRest(g)
    \/ \E g \in Writers : IndexUnlock(g)
    \/ \E g \in Readers, hash \in Hashes : ExistsRLock(g, hash)
    \/ \E g \in Readers : ExistsReturn(g)
    \/ \E g \in Readers : ReadOpen(g, "ReadAll", [field |-> "any", value |-> ""])
    \/ \E g \in Readers, p \in ReaderPreds : ReadOpen(g, "Search", p)
    \/ \E g \in Readers : ReadScan(g)

SpecConc == ConcStart /\ [][NextConc]_vars

\* a new deduplicating instance is handed to the goroutines: Init is theirs to call
LockStart ==
    /\ cmd = NoCmd /\ ties = "kept"
    /\ deduplication = TRUE
    /\ disk \in {NoDir, NoFile}
            \cup {[dir |-> TRUE, exists |-> TRUE, lines |-> <<l>>] : l \in StoreLines}
    /\ hashSet = {}
    /\ gs = Started(hashSet, disk)
    /\ op = "New" /\ arg = <<>> /\ ret = 0 /\ err = "nil"
    /\ inited = FALSE /\ faulted = FALSE /\ rep = FALSE
    /\ fresh = (disk.lines = <<>>)
    /\ track = FALSE

NextLock ==
    \/ \E g \in Writers : InitBegin(g)
    \/ \E g \in Writers : InitLoad(g)
    \/ \E g \in Writers, elements \in ConcBatches : IndexLock(g, elements)
    \/ \E g \in Writers : IndexLoopAct(g)
    \/ \E g \in Writers : AppendWrite(g)
    \/ \E g \in Writers : IndexUnlock(g)
    \/ \E g \in Readers, hash \in Hashes : ExistsRLock(g, hash)
    \/ \E g \in Readers : ExistsReturn(g)
    \/ \E g \in Writers : ClearLock(g)
    \/ \E g \in Writers : ClearUnlock(g)

SpecLock == LockStart /\ [][NextLock]_vars

(***************************************************************************)
(* Rebuild called by one goroutine while another calls Index.  Rebuild     *)
(* itself takes no lock: the lock is taken and released inside its calls   *)
(* of Clear and of Index, and not at all by ReadAll and Init.              *)
(***************************************************************************)
Rebuilder == "g1"
Indexers == {"g2"}

\* Rebuild: idx.ReadAll() and the map `unique`
RebuildReadAll(g) ==
    /\ Running /\ gs.pc[g] = "idle"
    /\ LET r == ReadAll(disk)
       IN  IF r.err # "nil"
           THEN Step(g, "done", [Idle EXCEPT !.call = "Rebuild", !.err = r.err], gs.mu)
           ELSE Step(g, "Rebuild.clear", [Idle EXCEPT !.call = "Rebuild", !.out = r.elements],
                     gs.mu)
    /\ UNCHANGED <<disk, hashSet>> /\ Quiet

\* Rebuild: idx.Clear() takes the lock
RebuildClearLock(g) ==
    /\ Running /\ gs.pc[g] = "Rebuild.clear" /\ CanLock(gs.mu)
    /\ Step(g, "Rebuild.clearing", gs.loc[g], [gs.mu EXCEPT !.writer = g])
    /\ UNCHANGED <<disk, hashSet>> /\ Quiet

\* Rebuild: idx.Clear() empties the map, removes the file and releases the lock
RebuildClear(g) ==
    /\ Running /\ gs.pc[g] = "Rebuild.clearing"
    /\ LET c == Clear(disk, hashSet)
       IN  /\ disk' = c.disk /\ hashSet' = c.hashSet
           /\ Step(g, IF c.err # "nil" THEN "done" ELSE "Rebuild.init",
                   [gs.loc[g] EXCEPT !.err = c.err], [gs.mu EXCEPT !.writer = "none"])
    /\ Quiet

\* Rebuild: idx.Init(), which holds no lock while it fills the map
RebuildInit(g) ==
    /\ Running /\ gs.pc[g] = "Rebuild.init"
    /\ LET i == Init(disk, hashSet)
       IN  \E fatal \in {FALSE, Races(g)} :
              /\ disk' = IF fatal THEN disk ELSE i.disk
              /\ hashSet' = IF fatal THEN hashSet ELSE i.hashSet
              /\ gs' = [gs EXCEPT !.pc[g] = IF i.err # "nil" THEN "done" ELSE "Rebuild.index",
                                  !.loc[g] = [gs.loc[g] EXCEPT !.err = i.err],
                                  !.fatal = fatal]
    /\ Quiet

\* Rebuild: uniqueElements, in the order the map is ranged over, and idx.Index's Lock
RebuildIndexLock(g) ==
    /\ Running /\ gs.pc[g] = "Rebuild.index" /\ CanLock(gs.mu)
    /\ LET u == unique(gs.loc[g].out)
       IN  \E order \in MapOrders(DOMAIN u) :
              Step(g, "Index.loop",
                   [gs.loc[g] EXCEPT !.batch = [k \in 1..Len(order) |-> u[order[k]]]],
                   [gs.mu EXCEPT !.writer = g])
    /\ UNCHANGED <<disk, hashSet>> /\ Quiet

NextRebuild ==
    \/ RebuildReadAll(Rebuilder)
    \/ RebuildClearLock(Rebuilder)
    \/ RebuildClear(Rebuilder)
    \/ RebuildInit(Rebuilder)
    \/ RebuildIndexLock(Rebuilder)
    \/ \E g \in Indexers, elements \in ConcBatches : IndexLock(g, elements)
    \/ \E g \in Writers : IndexLoopAct(g)
    \/ \E g \in Writers : AppendWrite(g)
    \/ \E g \in Writers : IndexUnlock(g)

SpecRebuild == ConcStart /\ [][NextRebuild]_vars

(***************************************************************************)
(* What the claims speak about.                                            *)
(***************************************************************************)
\* the records of the store file, in file order: its lines that are a JSON record
StoreRecords(d) == DecodeAll(d.lines)

NoTwoWithOneHash(records) ==
    \A i, j \in 1..Len(records) : i # j => records[i].Hash # records[j].Hash

IsPrefix(s, t) == Len(s) <= Len(t) /\ SubSeq(t, 1, Len(s)) = s

\* the records among `records` that carry hash h, in order
RECURSIVE WithHash(_, _)
WithHash(records, h) ==
    IF records = <<>> THEN <<>>
    ELSE IF Head(records).Hash = h
         THEN <<Head(records)>> \o WithHash(Tail(records), h)
         ELSE WithHash(Tail(records), h)

\* the candidates of batch b that Index is to append when the known hashes are hs
Accepted(b, hs) ==
    {i \in 1..Len(b) :
        \/ ~deduplication
        \/ (b[i].Hash \notin hs /\ \A j \in 1..(i - 1) : b[j].Hash # b[i].Hash)}

RECURSIVE Pick(_, _, _)
Pick(b, I, i) ==
    IF i > Len(b) THEN <<>>
    ELSE IF i \in I THEN <<b[i]>> \o Pick(b, I, i + 1) ELSE Pick(b, I, i + 1)

(***************************************************************************)
(* C1.  A deduplicating instance created over an empty store: whatever     *)
(* Init, Index, Clear and Rebuild calls follow, the store never holds two  *)
(* records with the same content hash.                                     *)
(***************************************************************************)
C1_AtMostOneRecordPerHash ==
    (deduplication /\ fresh) => NoTwoWithOneHash(StoreRecords(disk))

\* Index has dropped one of two candidates on the initialized instance
C1_Witness ==
    /\ deduplication /\ fresh /\ inited
    /\ op = "Index" /\ Len(arg) = 2 /\ ret = 1
    /\ Len(StoreRecords(disk)) = 2

C3_SecondIndexWritesNothing ==
    [][(deduplication /\ op = "Index" /\ op' = "Index" /\ arg' = arg)
          => /\ ret' = 0
             /\ Len(StoreRecords(disk')) = Len(StoreRecords(disk))]_vars

\* the second of two Index(S), the first of which wrote both elements of S
C3_Witness ==
    /\ deduplication /\ inited /\ fresh
    /\ op = "Index" /\ rep /\ Len(arg) = 2 /\ ret = 0
    /\ Len(StoreRecords(disk)) = 2

(***************************************************************************)
(* C4.  An Index that succeeds appends, in batch order, the candidates     *)
(* whose hash was not known and is not that of an earlier candidate of the *)
(* batch (every candidate when deduplication is off), records their        *)
(* hashes, and returns the number of records by which the store grew.      *)
(***************************************************************************)
C4_IndexAppendsTheUnknown ==
    [][(op' = "Index" /\ err' = "nil")
          => LET written == Pick(arg', Accepted(arg', hashSet), 1)
             IN  /\ disk'.lines = disk.lines \o EncodeAll(written)
                 /\ hashSet' = hashSet \cup HashesOf(written)
                 /\ ret' = Len(written)
                 /\ ret' = Len(StoreRecords(disk')) - Len(StoreRecords(disk))]_vars

\* of two candidates with one hash the first was written, the second dropped
C4_Witness ==
    /\ deduplication /\ op = "Index" /\ err = "nil"
    /\ Len(arg) = 2 /\ arg[1].Hash = arg[2].Hash /\ ret = 1
    /\ StoreRecords(disk)[Len(StoreRecords(disk))] = Unmarshal(Encode(arg[1]))

(***************************************************************************)
(* C5.  On an initialized deduplicating instance, an Index whose batch     *)
(* holds an element with the hash of a stored record leaves the stored     *)
(* records with that hash as they are, each at its place; no record with   *)
(* that hash appears under the element's file.                             *)
(***************************************************************************)
C5_FirstWriterWins ==
    [][(deduplication /\ inited /\ op' = "Index")
          => \A k \in 1..Len(arg') :
                LET e2 == arg'[k]
                    before == StoreRecords(disk)
                    after == StoreRecords(disk')
                IN  e2.Hash \in HashesOf(before) =>
                        /\ IsPrefix(before, after)
                        /\ WithHash(after, e2.Hash) = WithHash(before, e2.Hash)
                        /\ WithHash(FindByFile(disk', e2.File).elements, e2.Hash)
                             = WithHash(FindByFile(disk, e2.File).elements, e2.Hash)]_vars

\* eAdd2 was offered while eAdd1 was stored: the store holds eAdd1 alone under h1
C5_Witness ==
    /\ deduplication /\ inited
    /\ op = "Index" /\ arg = <<eAdd2>> /\ ret = 0
    /\ WithHash(StoreRecords(disk), eAdd2.Hash) = <<Unmarshal(Encode(eAdd1))>>
    /\ FindByFile(disk, eAdd2.File).elements = <<>>

(***************************************************************************)
(* C6.  The store is append-only outside Clear and Rebuild: an Index keeps *)
(* the lines of the file as a prefix of the lines after it, Init and the   *)
(* reading calls leave the file as it is, and a call that removes or       *)
(* alters a line is a Clear or a Rebuild.                                  *)
(***************************************************************************)
C6_AppendOnly ==
    [][/\ op' = "Index" => /\ IsPrefix(disk.lines, disk'.lines)
                           /\ IsPrefix(StoreRecords(disk), StoreRecords(disk'))
       /\ op' \in ReadCalls \cup {"Init"} =>
              /\ disk'.lines = disk.lines
              /\ disk'.exists = disk.exists
       /\ ~IsPrefix(disk.lines, disk'.lines) => op' \in {"Clear", "Rebuild"}]_vars

\* an Index has added a record to a store that held a malformed line
C6_Witness ==
    /\ op = "Index" /\ ret = 1 /\ err = "nil"
    /\ Len(disk.lines) = 2 /\ ~Decodes(disk.lines[1])

(***************************************************************************)
(* C7.  Init is idempotent: an Init that follows an Init leaves the file   *)
(* system and the hash set as the first left them, and succeeds if the     *)
(* first did.                                                              *)
(***************************************************************************)
C7_InitIdempotent ==
    [][(op = "Init" /\ op' = "Init")
          => /\ disk' = disk
             /\ hashSet' = hashSet
             /\ err = "nil" => err' = "nil"]_vars

\* the second of two Inits that loaded hashes from the store
C7_Witness ==
    /\ op = "Init" /\ rep /\ err = "nil"
    /\ deduplication /\ Cardinality(hashSet) = 2

C9_NoWriteBeforeInit ==
    (op = "Index" /\ ~inited) => ret = 0

(***************************************************************************)
(* C10.  ReadAll returns, in store order, exactly the lines of the store   *)
(* that decode as a record, and no error: malformed lines are skipped and  *)
(* a missing file is an empty result.                                      *)
(***************************************************************************)
C10_ReadAllReturnsEveryRecord ==
    op = "ReadAll" => (ret = StoreRecords(disk) /\ err = "nil")

(***************************************************************************)
(* C11.  Search(p) returns the records of ReadAll() that satisfy p, in     *)
(* store order, with the error ReadAll returns; FindByName, FindByType and *)
(* FindByFile return those whose name, kind or file equals the argument.   *)
(***************************************************************************)
Matching(elements, p) == SelectSeq(elements, LAMBDA el : predicate(p, el))

FieldIs(elements, field, v) == SelectSeq(elements, LAMBDA el : el[field] = v)

C11_SearchIsFilteredReadAll ==
    LET all == ReadAll(disk)
    IN  /\ op = "Search" => (ret = Matching(all.elements, arg[1]) /\ err = all.err)
        /\ op = "FindByName" => (ret = FieldIs(all.elements, "Name", arg[1]) /\ err = all.err)
        /\ op = "FindByType" => (ret = FieldIs(all.elements, "Type", arg[1]) /\ err = all.err)
        /\ op = "FindByFile" => (ret = FieldIs(all.elements, "File", arg[1]) /\ err = all.err)

\* FindByFile returned the second of two records and left out the first
C11_Witness ==
    /\ op = "FindByFile" /\ err = "nil"
    /\ Len(StoreRecords(disk)) = 2
    /\ ret = <<StoreRecords(disk)[2]>>
    /\ StoreRecords(disk)[1].File # arg[1]

(***************************************************************************)
(* C12.  What GetStats returns is computed from the store as it is:        *)
(* TotalElements is the number of records ReadAll returns, the counts of   *)
(* ByType, of ByLanguage and of ByFile each add up to it, and TotalSize is *)
(* the sum of the body lengths.  A GetStats made after an Index that       *)
(* succeeded reports a TotalElements larger, by the number Index returned, *)
(* than a GetStats made before it.                                         *)
(***************************************************************************)
RECURSIVE SumFn(_)
SumFn(f) ==
    IF DOMAIN f = {} THEN 0
    ELSE LET x == CHOOSE x \in DOMAIN f : TRUE
         IN  f[x] + SumFn([y \in DOMAIN f \ {x} |-> f[y]])

C12_StatsFromTheStore ==
    [][/\ (op' = "GetStats" /\ err' = "nil") =>
              LET R == ReadAll(disk').elements
              IN  /\ ret'.TotalElements = Len(R)
                  /\ SumFn(ret'.ByType) = ret'.TotalElements
                  /\ SumFn(ret'.ByLanguage) = ret'.TotalElements
                  /\ SumFn(ret'.ByFile) = ret'.TotalElements
                  /\ ret'.TotalSize = SumFn([i \in 1..Len(R) |-> BodyLen(R[i].Body)])
       /\ (op' = "Index" /\ err' = "nil" /\ GetStats(disk).err = "nil") =>
              /\ GetStats(disk').err = "nil"
              /\ GetStats(disk').stats.TotalElements
                    = GetStats(disk).stats.TotalElements + ret']_vars

(***************************************************************************)
(* C13.  After a Clear, ReadAll returns no record and no error, Exists is  *)
(* false of every hash, and an Index of an element that was stored before  *)
(* the Clear writes it and returns 1.  A Clear of an instance whose store  *)
(* file does not exist succeeds and changes the hash set alone.            *)
(***************************************************************************)
C13_ClearEmptiesStoreAndSet ==
    [][op' = "Clear" =>
          /\ err' = "nil"
          /\ ReadAll(disk') = [elements |-> <<>>, err |-> "nil"]
          /\ \A h \in Hashes : ~Exists(hashSet', h)
          /\ \A e \in Elements :
                (\E i \in 1..Len(disk.lines) : disk.lines[i] = Encode(e)) =>
                    LET x == Index(disk', hashSet', <<e>>)
                    IN  /\ x.n = 1 /\ x.err = "nil"
                        /\ StoreRecords(x.disk) = <<Unmarshal(Encode(e))>>
          /\ ~disk.exists => (disk' = disk /\ hashSet' = {})]_vars

\* Clear has removed the store an initialized deduplicating instance was opened on
C13_Witness ==
    /\ op = "Clear" /\ err = "nil"
    /\ deduplication /\ inited /\ ~fresh
    /\ ~disk.exists /\ disk.dir /\ hashSet = {}

(***************************************************************************)
(* C14.  After a Rebuild that succeeds the store holds one record for      *)
(* each content hash it held before and nothing else: no hash twice, no    *)
(* malformed line, as many records as there were distinct hashes, and each *)
(* record equal to one of the records that carried its hash before.        *)
(***************************************************************************)
C14_RebuildKeepsOnePerHash ==
    [][(op' = "Rebuild" /\ err' = "nil") =>
          LET before == StoreRecords(disk)
              after == StoreRecords(disk')
          IN  /\ HashesOf(after) = HashesOf(before)
              /\ NoTwoWithOneHash(after)
              /\ Len(after) = Cardinality(HashesOf(before))
              /\ Len(disk'.lines) = Len(after)
              /\ \A i \in 1..Len(after) : \E j \in 1..Len(before) : after[i] = before[j]]_vars

\* Rebuild has left one record, the later one of its hash, in a store found non-empty
C14_Witness ==
    /\ op = "Rebuild" /\ err = "nil" /\ ~deduplication /\ ~fresh
    /\ disk.lines = <<Encode(eAdd2)>>

(***************************************************************************)
(* C15.  A Rebuild that follows a successful Rebuild leaves the lines of   *)
(* the store, in their order, as the first left them.                      *)
(***************************************************************************)
C15_RebuildIdempotent ==
    [][(op = "Rebuild" /\ err = "nil" /\ op' = "Rebuild") => disk'.lines = disk.lines]_vars

(***************************************************************************)
(* C16.  Round trip: after an Index that succeeds, ReadAll succeeds and    *)
(* the last records it returns are the elements Index wrote, field for     *)
(* field, an empty Methods being the same as an absent one.                *)
(***************************************************************************)
Normal(element) ==
    [element EXCEPT !.Methods = IF @ = "empty" THEN "nil" ELSE @]

C16_RoundTrip ==
    [][(op' = "Index" /\ err' = "nil") =>
          LET written == Pick(arg', Accepted(arg', hashSet), 1)
              r == ReadAll(disk')
              n == Len(r.elements)
          IN  /\ r.err = "nil"
              /\ n >= Len(written)
              /\ \A k \in 1..Len(written) :
                    Normal(r.elements[n - Len(written) + k]) = Normal(written[k])]_vars

(***************************************************************************)
(* C20.  For a file the Go parser rejects, Parse returns a nil error, no   *)
(* element and one diagnostic, whatever the partial syntax tree holds; the *)
(* turn of cmdIndex's loop that meets such a file leaves the store as it   *)
(* is and the loop goes on to the next file.                               *)
(***************************************************************************)
Rejected(file) == SupportsFile(file.Path) /\ file.readable /\ ~file.content.ok

C20_ParseFailureIsADiagnostic ==
    [][(cmd.state = "loop" /\ cmd.i <= Len(cmd.files) /\ Rejected(cmd.files[cmd.i])) =>
          LET file == cmd.files[cmd.i]
              result == Parse(file.Path, file.content, cmd.i)
          IN  /\ result.err = "nil"
              /\ result.Elements = <<>>
              /\ Len(result.Errors) = 1
              /\ disk' = disk
              /\ cmd'.state = "loop" /\ cmd'.i = cmd.i + 1
              /\ cmd'.totalElements = cmd.totalElements]_vars

\* a file with declarations before its syntax error was met, then a file was indexed
C20_Witness ==
    /\ cmd.state = "done" /\ Len(cmd.files) = 2
    /\ Rejected(cmd.files[1]) /\ cmd.files[1].content.Decls # <<>>
    /\ fresh /\ cmd.totalElements = 2 /\ cmd.totalFiles = 2
    /\ Len(StoreRecords(disk)) = 2

(***************************************************************************)
(* C17.  Lock discipline: no goroutine is in the part of Init, Index or    *)
(* Clear that writes the hash set while another goroutine is in such a     *)
(* part or in the part of Exists that reads it.                            *)
(***************************************************************************)
C17_NoRaceOnHashSet ==
    gs.state = "run" => \A g \in Procs : ~Races(g)

(***************************************************************************)
(* C18.  Concurrent Index calls on an initialized deduplicating instance:  *)
(* at no time does the store hold a new hash twice or a hash it held at    *)
(* the start again; when no call is in flight, the records added are one   *)
(* for each hash of the batches that the store did not hold, and the       *)
(* counts returned add up to their number.  An Exists that ran beside them *)
(* and returned true did so for a hash whose record is whole in the store. *)
(***************************************************************************)
Added == SubSeq(disk.lines, Len(gs.lines0) + 1, Len(disk.lines))

Quiescent == \A g \in Procs : gs.pc[g] \in {"idle", "done"}

NewHashes == UNION {HashesOf(gs.loc[g].batch) : g \in Writers} \ gs.hs0

C18_ConcurrentIndexWritesOnce ==
    gs.state = "run" =>
        /\ IsPrefix(gs.lines0, disk.lines)
        /\ NoTwoWithOneHash(DecodeAll(Added))
        /\ HashesOf(DecodeAll(Added)) \cap gs.hs0 = {}
        /\ Quiescent =>
              /\ \A i \in 1..Len(Added) : Decodes(Added[i])
              /\ HashesOf(DecodeAll(Added)) = NewHashes
              /\ SumFn([g \in Writers |-> gs.loc[g].n]) = Cardinality(NewHashes)
        /\ \A g \in Procs :
              (gs.pc[g] = "done" /\ gs.loc[g].call = "Exists" /\ gs.loc[g].res) =>
                  gs.loc[g].h \in HashesOf(StoreRecords(disk))

\* two Index calls whose batches share a hash have each written; Exists saw a new hash
C18_Witness ==
    /\ gs.state = "run" /\ \A g \in Procs : gs.pc[g] = "done"
    /\ gs.loc["g1"].call = "Index" /\ gs.loc["g2"].call = "Index"
    /\ HashesOf(gs.loc["g1"].batch) \cap HashesOf(gs.loc["g2"].batch) # {}
    /\ gs.loc["g1"].n = 1 /\ gs.loc["g2"].n = 1
    /\ gs.loc["g3"].call = "Exists" /\ gs.loc["g3"].res
    /\ gs.loc["g3"].h \notin gs.hs0

(***************************************************************************)
(* C19.  A ReadAll or Search that ran beside Index calls returned no       *)
(* error and a prefix of the records of the store that satisfy its         *)
(* predicate, every one a whole record, and among them all those the file  *)
(* held when the read began.                                               *)
(***************************************************************************)
C19_ReaderSeesWholePrefix ==
    gs.state = "run" =>
        \A g \in Readers :
            (gs.pc[g] = "done" /\ gs.loc[g].call \in {"ReadAll", "Search"}) =>
                /\ gs.loc[g].err = "nil"
                /\ IsPrefix(gs.loc[g].out, Matching(StoreRecords(disk), gs.loc[g].p))
                /\ Len(gs.loc[g].out) >= gs.loc[g].had

(***************************************************************************)
(* C27.  An Index that returns an error on a deduplicating instance leaves *)
(* no hash in the hash set whose record is not in the store.               *)
(***************************************************************************)
C27_FailedIndexKeepsSetAndStoreTogether ==
    (deduplication /\ op = "Index" /\ err # "nil") =>
        hashSet \subseteq HashesOf(StoreRecords(disk))

(***************************************************************************)
(* C26.  GetRAGIndex partitions the records ReadAll returns: the groups of *)
(* ByFile are the records of each file, those of ByType the records of     *)
(* each kind, every record once in each; TotalElements is the sum of the   *)
(* group sizes of either map; a ByFile group is in non-decreasing line     *)
(* order, a ByType group in non-decreasing name order; and a call that     *)
(* follows a call on the same store returns what the first returned.       *)
(***************************************************************************)
\* a and b hold the same elements, each as often
SameElements(a, b) ==
    /\ Len(a) = Len(b)
    /\ \E p \in [1..Len(a) -> 1..Len(a)] :
          /\ \A i, j \in 1..Len(a) : i # j => p[i] # p[j]
          /\ \A i \in 1..Len(a) : a[i] = b[p[i]]

\* the records of R whose field is v, as RAG elements, in store order
Members(R, field, v) ==
    LET sel == SelectSeq(R, LAMBDA el : el[field] = v)
    IN  [i \in 1..Len(sel) |-> RAGElement(sel[i])]

C26_RAGIndexPartitionsTheStore ==
    [][(op' = "GetRAGIndex" /\ err' = "nil") =>
          LET R == ReadAll(disk').elements
              out == ret'
          IN  /\ out.TotalElements = Len(R)
              /\ DOMAIN out.ByFile = {R[i].File : i \in 1..Len(R)}
              /\ DOMAIN out.ByType = {R[i].Type : i \in 1..Len(R)}
              /\ \A f \in DOMAIN out.ByFile :
                    /\ SameElements(out.ByFile[f], Members(R, "File", f))
                    /\ IsSorted(out.ByFile[f], "Line")
              /\ \A k \in DOMAIN out.ByType :
                    /\ SameElements(out.ByType[k], Members(R, "Type", k))
                    /\ IsSorted(out.ByType[k], "Name")
              /\ SumFn([f \in DOMAIN out.ByFile |-> Len(out.ByFile[f])]) = out.TotalElements
              /\ SumFn([k \in DOMAIN out.ByType |-> Len(out.ByType[k])]) = out.TotalElements
              /\ (op = "GetRAGIndex" /\ disk' = disk) => ret' = ret]_vars

\* two functions of one name were grouped, the later record first; a file's lines sorted
C26_Witness ==
    /\ op = "GetRAGIndex" /\ err = "nil"
    /\ ret.TotalElements = 2
    /\ "function" \in DOMAIN ret.ByType /\ Len(ret.ByType["function"]) = 2
    /\ ret.ByType["function"][1].Name = ret.ByType["function"][2].Name
    /\ ret.ByType["function"][1] = RAGElement(StoreRecords(disk)[2])
    /\ ret.ByType["function"][1] # ret.ByType["function"][2]

(***************************************************************************)
(* C28.  Over a store that a crash left ending in a partial record, with   *)
(* no line too long for the scanner: ReadAll returns the whole records     *)
(* and no error, and every element an Index accepts after Init is among    *)
(* the records ReadAll returns from then on.                               *)
(***************************************************************************)
C28_PartialTailLosesNothing ==
    [][/\ op' = "ReadAll" =>
             (err' = "nil" => ret' = StoreRecords(disk'))
       /\ (op' = "Index" /\ err' = "nil" /\ inited /\ ReadAll(disk').err = "nil") =>
             LET written == Pick(arg', Accepted(arg', hashSet), 1)
                 R == ReadAll(disk').elements
             IN  \A k \in 1..Len(written) :
                    \E i \in 1..Len(R) : Normal(R[i]) = Normal(written[k])]_vars

(***************************************************************************)
(* C29.  A Rebuild and an Index on one instance, in any interleaving: once *)
(* both have returned without error, every element that the Index counted  *)
(* as written is a record of the store, and the store holds at most one    *)
(* record per hash.                                                        *)
(***************************************************************************)
C29_RebuildLosesNoAcceptedRecord ==
    (/\ gs.state = "run" /\ ~gs.fatal
     /\ gs.pc["g1"] = "done" /\ gs.loc["g1"].call = "Rebuild" /\ gs.loc["g1"].err = "nil"
     /\ gs.pc["g2"] = "done" /\ gs.loc["g2"].call = "Index" /\ gs.loc["g2"].err = "nil") =>
        LET l == gs.loc["g2"]
            R == StoreRecords(disk)
        IN  /\ \A k \in 1..l.n : \E i \in 1..Len(R) : Normal(R[i]) = Normal(l.toWrite[k])
            /\ NoTwoWithOneHash(R)

(***************************************************************************)
(* The extractor's claims are about one call of Parse on an accepted file: *)
(* arg holds the file, ret what Parse returned.                            *)
(***************************************************************************)
Parsed == op = "Parse" /\ arg[1].content.ok

\* the function declarations of a file, in source order
RECURSIVE FuncDeclsOf(_)
FuncDeclsOf(nodes) ==
    IF nodes = <<>> THEN <<>>
    ELSE (IF Head(nodes).node = "FuncDecl" THEN <<Head(nodes)>> ELSE <<>>)
         \o FuncDeclsOf(Tail(nodes))

RECURSIVE FunctionsOf(_)
FunctionsOf(elements) ==
    IF elements = <<>> THEN <<>>
    ELSE (IF Head(elements).Type = "function" THEN <<Head(elements)>> ELSE <<>>)
         \o FunctionsOf(Tail(elements))

\* the expression under all the pointer indirections of expr
RECURSIVE Strip(_)
Strip(expr) == IF expr.x = "StarExpr" THEN Strip(expr.X) ELSE expr

RECURSIVE RangesOf(_)
RangesOf(nodes) ==
    IF nodes = <<>> THEN <<>>
    ELSE LET n == Head(nodes)
         IN  (CASE n.node = "FuncDecl" -> <<n>> \o RangesOf(n.Stmts)
                [] n.node = "GenDecl" ->
                     [i \in 1..Cardinality({j \in 1..Len(n.Specs) :
                                              n.Specs[j].spec = "TypeSpec"}) |-> n]
                [] OTHER -> <<>>)
             \o RangesOf(Tail(nodes))

Degenerate(start, end, content) ==
    \/ start = 0 \/ end = 0
    \/ start - 1 >= end - 1
    \/ end - 1 > Len(content)

(***************************************************************************)
(* C22.  Parse of an accepted file reports no error and emits an element   *)
(* for every declaration, whatever its byte range: when the range is       *)
(* degenerate (start or end zero, start offset >= end offset, end offset   *)
(* beyond the length of the source) the body is the empty string and the   *)
(* hash the hash of the empty string; otherwise the body is the source     *)
(* from offset start-1 up to, not including, offset end-1.                 *)
(***************************************************************************)
C22_DegenerateRangeGivesEmptyBody ==
    Parsed =>
        LET text == arg[1].content.text
            ds == RangesOf(arg[1].content.Decls)
        IN  /\ err = "nil" /\ ret.Errors = <<>>
            /\ Len(ret.Elements) = Len(ds)
            /\ \A k \in 1..Len(ds) :
                  IF Degenerate(ds[k].Pos, ds[k].End, text)
                  THEN ret.Elements[k].Body = "" /\ ret.Elements[k].Hash = HashCode("")
                  ELSE /\ Len(ret.Elements[k].Body) = ds[k].End - ds[k].Pos
                       /\ \A i \in 1..(ds[k].End - ds[k].Pos) :
                             SubSeq(ret.Elements[k].Body, i, i)
                                = SubSeq(text, ds[k].Pos + i - 1, ds[k].Pos + i - 1)

\* a declaration that ends beyond the end of the source gave an element with no body
C22_Witness ==
    /\ Parsed /\ Len(ret.Elements) = 1
    /\ arg[1].content.Decls[1].Pos = Len(PackageClause) + 1
    /\ arg[1].content.Decls[1].End = Len(arg[1].content.text) + 2
    /\ ret.Elements[1].Name = "f"
    /\ ret.Elements[1].Body = ""

\* the names, bodies and hashes of a sequence of elements
Digest(elements) ==
    [k \in 1..Len(elements) |->
        <<elements[k].Name, elements[k].Body, elements[k].Hash>>]

(***************************************************************************)
(* C23.  The hash is a function of the body alone: every element of a      *)
(* Parse has the hash HashCode(body); an element of this Parse and an      *)
(* element of the Parse of any source file that have equal bodies have     *)
(* equal hashes, whatever their files and lines; and a second Parse of the *)
(* same path and content gives the same names, bodies and hashes in the    *)
(* same order as the first.                                                *)
(***************************************************************************)
C23_HashIsAFunctionOfBody ==
    [][op' = "Parse" =>
          /\ \A k \in 1..Len(ret'.Elements) :
                ret'.Elements[k].Hash = HashCode(ret'.Elements[k].Body)
          /\ \A f \in SourceFiles :
                LET other == Parse(f.Path, f.content, 1).Elements
                IN  \A k \in 1..Len(ret'.Elements), j \in 1..Len(other) :
                       ret'.Elements[k].Body = other[j].Body =>
                          ret'.Elements[k].Hash = other[j].Hash
          /\ op = "Parse" => Digest(ret'.Elements) = Digest(ret.Elements)]_vars

\* b.go was parsed twice, at two times; its Add has the text of a.go's Add at another line
C23_Witness ==
    /\ Parsed /\ arg[1].Path = "b.go" /\ cmd.now = 3
    /\ Len(ret.Elements) = 1
    /\ ret.Elements[1].IndexedAt = 2
    /\ \E f \in SourceFiles :
          /\ f.Path = "a.go"
          /\ Parse(f.Path, f.content, 1).Elements[1].Body = ret.Elements[1].Body
          /\ Parse(f.Path, f.content, 1).Elements[1].Line # ret.Elements[1].Line

(***************************************************************************)
(* C24.  A file with the exported function Add(a, b int) int and the       *)
(* unexported method helper() of *T gives exactly two elements, both      *)
(* functions: Add, exported, with the parameters {a, int} and {b, int} and *)
(* the return "int"; and T.helper, not exported although T is capitalized. *)
(***************************************************************************)
C24_AddAndHelper ==
    (/\ Parsed
     /\ arg[1].content.text
          = "package p\nfunc Add(a, b int) int { return a + b }\nfunc (t *T) helper() {}\n") =>
        /\ Len(ret.Elements) = 2
        /\ ret.Elements[1].Type = "function"
        /\ ret.Elements[1].Name = "Add"
        /\ ret.Elements[1].Exports = TRUE
        /\ ret.Elements[1].Params = <<[Name |-> "a", Type |-> "int"],
                                      [Name |-> "b", Type |-> "int"]>>
        /\ ret.Elements[1].Returns = "int"
        /\ ret.Elements[2].Type = "function"
        /\ ret.Elements[2].Name = "T.helper"
        /\ ret.Elements[2].Exports = FALSE

C24_Witness ==
    /\ Parsed /\ arg[1].Path = "m.go"
    /\ Len(ret.Elements) = 2
    /\ ret.Elements[2].Name = "T.helper"

\* the type specs of the declarations of a file, each with the source text of its own
RECURSIVE OwnTexts(_, _)
OwnTexts(nodes, text) ==
    IF nodes = <<>> THEN <<>>
    ELSE LET n == Head(nodes)
         IN  (IF n.node = "GenDecl" /\ n.Tok = "type"
              THEN [i \in 1..Len(n.Specs) |->
                      [Name |-> n.Specs[i].Name.Name,
                       text |-> SubSeq(text, n.Pos + n.Specs[i].off,
                                       n.Pos + n.Specs[i].off + n.Specs[i].len - 1)]]
              ELSE <<>>)
             \o OwnTexts(Tail(nodes), text)

RECURSIVE TypesOf(_)
TypesOf(elements) ==
    IF elements = <<>> THEN <<>>
    ELSE (IF Head(elements).Type # "function" THEN <<Head(elements)>> ELSE <<>>)
         \o TypesOf(Tail(elements))

(***************************************************************************)
(* C30.  The index command run on one accepted file over an empty store:   *)
(* when the type specs of the file have pairwise different source text,    *)
(* the store ends up with one type record for each of them, under its      *)
(* name, and no two of these records have the same hash.                   *)
(***************************************************************************)
C30_EveryTypeSpecIsStored ==
    (/\ cmd.state = "done" /\ Len(cmd.files) = 1
     /\ fresh /\ inited /\ ~faulted
     /\ SupportsFile(cmd.files[1].Path) /\ cmd.files[1].readable /\ cmd.files[1].content.ok
     /\ LET own == OwnTexts(cmd.files[1].content.Decls, cmd.files[1].content.text)
        IN  \A i, j \in 1..Len(own) : i # j => own[i].text # own[j].text) =>
        LET own == OwnTexts(cmd.files[1].content.Decls, cmd.files[1].content.text)
            types == TypesOf(StoreRecords(disk))
        IN  /\ Len(types) = Len(own)
            /\ \A i \in 1..Len(own) : types[i].Name = own[i].Name
            /\ \A i, j \in 1..Len(types) : i # j => types[i].Hash # types[j].Hash

\* a and b are the same letter, in the same or in different case
SameLetter(a, b) ==
    \/ a = b
    \/ \E i \in 1..Len(UpperLetters) :
          {a, b} = {SubSeq(UpperLetters, i, i), SubSeq(LowerLetters, i, i)}

\* q is in str, from some place on, letter for letter, whatever the case
ContainsFold(str, q) ==
    \E i \in 0..(Len(str) - Len(q)) :
        \A k \in 1..Len(q) : SameLetter(SubSeq(str, i + k, i + k), SubSeq(q, k, k))

FirstTen(elements) ==
    IF Len(elements) > 10 THEN SubSeq(elements, 1, 10) ELSE elements

(***************************************************************************)
(* C25 as stated.  When the search succeeds over a store of at most ten    *)
(* records, its results are the stored elements whose name contains the    *)
(* query, whatever the case; over the three functions the query            *)
(* "generateCommitMessage" gives generateQwenCommitMessage and             *)
(* generateClaudeCommitMessage.                                            *)
(***************************************************************************)
C25_SearchMatchesNames ==
    (op = "cmdSearch" /\ ret.exit = 0 /\ Len(disk.lines) <= 10) =>
        /\ ret.results = SelectSeq(StoreRecords(disk),
                                   LAMBDA el : ContainsFold(el.Name, arg[1]))
        /\ (disk.lines = ThreeFunctions /\ arg[1] = "generateCommitMessage") =>
              ret.results = <<Unmarshal(Encode(eQwen)), Unmarshal(Encode(eClaude))>>

(***************************************************************************)
(* C25 amended.  The search gives the error of reading the store, or the   *)
(* first ten, in store order, of the stored elements whose name or body    *)
(* contains the query, whatever the case.  Over the three functions the    *)
(* query "generateCommitMessage" gives nothing, as it is in none of their  *)
(* names or bodies; with a function that calls generateCommitMessage in    *)
(* the store as well, it gives that function alone.                        *)
(***************************************************************************)
C25_SearchMatchesNamesAndBodies ==
    op = "cmdSearch" =>
        LET all == ReadAll(disk)
            hits == SelectSeq(all.elements,
                              LAMBDA el : \/ ContainsFold(el.Name, arg[1])
                                          \/ ContainsFold(el.Body, arg[1]))
        IN  /\ IF all.err # "nil"
               THEN ret.exit = 1 /\ ret.results = <<>>
               ELSE ret.exit = 0 /\ ret.results = FirstTen(hits)
            /\ (disk.lines = ThreeFunctions /\ arg[1] = "generateCommitMessage") =>
                  ret.results = <<>>
            /\ (disk.lines = Append(ThreeFunctions, Encode(eMain))
                /\ arg[1] = "generateCommitMessage") =>
                  ret.results = <<Unmarshal(Encode(eMain))>>

\* the query was found in the body of a function whose name does not contain it
C25_Witness ==
    /\ op = "cmdSearch" /\ arg[1] = "generateCommitMessage"
    /\ disk.lines = Append(ThreeFunctions, Encode(eMain))
    /\ Len(ret.results) = 1 /\ ret.results[1].Name = "main"

====
